---- MODULE Spec2Model ----
(***************************************************************************)
(* Document builders of the Didox SDK (src/modules/documents/builders).    *)
(* A builder is an object with a base payload (BaseDocumentBuilder) and,   *)
(* for most document types, a separate draft; chained setters fill the     *)
(* draft, raw() merges caller data into the base payload and build()       *)
(* transforms the draft into the API payload.                              *)
(*                                                                         *)
(* JavaScript values are tagged records.  Objects and arrays the caller    *)
(* keeps a reference to live in `heap` and are named by Ref(cell); objects *)
(* a method creates and hands to nobody else are written inline.           *)
(*                                                                         *)
(* The client side (DidoxClient, HttpClient, the auth and documents        *)
(* modules) is modelled beside the builders: the access token the client   *)
(* stores, the headers of each request and the error each call ends in.    *)
(***************************************************************************)
EXTENDS Integers, Sequences, FiniteSets, TLC

VARIABLES heap, bld, out, held, given, added, httpClient, apiCall

vars == <<heap, bld, out, held, given, added, httpClient, apiCall>>

(* ------------------------------ bounds -------------------------------- *)

MaxProducts == 2

MaxGroups == 2

MaxEntries == 2

\* the writes a caller makes into a payload it has kept
MaxTouches == 1

(* --------------------------- JavaScript values ------------------------ *)

S(s) == [t |-> "str", v |-> s]
Q(n, d) == [t |-> "num", v |-> n, d |-> d]
N(n) == Q(n, 1)
B(b) == [t |-> "bool", v |-> b]
Null == [t |-> "null"]
Undef == [t |-> "undef"]
Obj(r) == [t |-> "obj", f |-> r]
Arr(s) == [t |-> "arr", e |-> s]
Ref(a) == [t |-> "ref", a |-> a]

NoFields == [k \in {} |-> Undef]
EmptyObj == Obj(NoFields)

\* the object or array a value denotes
Deref(h, v) == IF v.t = "ref" THEN h[v.a] ELSE v

\* o[k], undefined when the key is absent
Get(o, k) == IF o.t = "obj" /\ k \in DOMAIN o.f THEN o.f[k] ELSE Undef

\* o[k] = x on an inline object
Put(o, k, x) == Obj((k :> x) @@ o.f)

\* { ...a, ...b }
Spread(a, b) == Obj(b.f @@ a.f)

\* ...(c && { fields })
SpreadIf(c, o) == IF c THEN o ELSE EmptyObj

\* JavaScript truthiness
Truthy(v) ==
    CASE v.t = "undef" -> FALSE
      [] v.t = "null" -> FALSE
      [] v.t = "bool" -> v.v
      [] v.t = "str" -> v.v # ""
      [] v.t = "num" -> v.v # 0
      [] OTHER -> TRUE

\* a ?? b
Nullish(a, b) == IF a.t \in {"undef", "null"} THEN b ELSE a

\* a || b
OrElse(a, b) == IF Truthy(a) THEN a ELSE b

\* x instanceof Object
IsObject(h, v) == v.t \in {"obj", "arr", "ref"}

(* ----------------------------- numbers -------------------------------- *)
(* A number is the exact decimal v / d with d a power of 100, reduced.    *)

RECURSIVE Reduce(_, _)
Reduce(n, d) == IF d > 1 /\ n % 100 = 0 THEN Reduce(n \div 100, d \div 100) ELSE Q(n, d)

\* the product with its fraction dropped
MulWhole(a, b) == Reduce((a.v * b.v) \div (a.d * b.d), 1)

Mul(a, b) == Reduce(a.v * b.v, a.d * b.d)

Div100(a) == Reduce(a.v, a.d * 100)

Add(a, b) ==
    LET d == IF a.d > b.d THEN a.d ELSE b.d
    IN Reduce(a.v * (d \div a.d) + b.v * (d \div b.d), d)

Gt0(a) == a.v > 0

\* nearest integer, halves down
RoundHalfDown(a) == N((2 * a.v + a.d - 1) \div (2 * a.d))

\* Math.round: nearest integer, halves up
MathRound(a) == N((2 * a.v + a.d) \div (2 * a.d))

Digit(k) == SubSeq("0123456789", k + 1, k + 1)

RECURSIVE Digits(_, _)
\* the last w decimal digits of n, zero padded
Digits(n, w) == IF w = 0 THEN "" ELSE Digits(n \div 10, w - 1) \o Digit(n % 10)

RECURSIVE StripZeros(_)
StripZeros(s) ==
    IF Len(s) > 0 /\ SubSeq(s, Len(s), Len(s)) = "0"
    THEN StripZeros(SubSeq(s, 1, Len(s) - 1))
    ELSE s

Width(d) == IF d = 1 THEN 0 ELSE IF d = 100 THEN 2 ELSE IF d = 10000 THEN 4 ELSE 6

\* Number.prototype.toString
NumToString(a) ==
    IF a.d = 1 THEN ToString(a.v)
    ELSE ToString(a.v \div a.d) \o "." \o StripZeros(Digits(a.v % a.d, Width(a.d)))

\* Number.prototype.toFixed(2)
ToFixed2(a) ==
    LET c == (2 * a.v * 100 + a.d) \div (2 * a.d)
    IN ToString(c \div 100) \o "." \o Digits(c % 100, 2)

\* String(x)
StringOf(v) == IF v.t = "num" THEN S(NumToString(v)) ELSE v

(* --------------------------- in-place updates ------------------------- *)
(* The result of writing through a value that is either an inline object  *)
(* (the holder is rewritten) or a reference (the heap cell is rewritten).  *)

\* target.k = x
SetField(h, target, k, x) ==
    IF target.t = "ref"
    THEN [h |-> [h EXCEPT ![target.a] = Put(@, k, x)], v |-> target]
    ELSE [h |-> h, v |-> Put(target, k, x)]

\* target.push(...xs)
Push(h, target, xs) ==
    IF target.t = "ref"
    THEN [h |-> [h EXCEPT ![target.a] = Arr(@.e \o xs)], v |-> target]
    ELSE [h |-> h, v |-> Arr(target.e \o xs)]

\* array.map((element, index) => ...): index counts from 0
MapIdx(s, F(_, _)) == [n \in 1..Len(s) |-> F(s[n], n - 1)]

RECURSIVE Snap(_, _)
\* the value with every reference replaced by what it denotes
Snap(h, v) ==
    CASE v.t = "ref" -> Snap(h, h[v.a])
      [] v.t = "obj" -> Obj([k \in DOMAIN v.f |-> Snap(h, v.f[k])])
      [] v.t = "arr" -> Arr([n \in 1..Len(v.e) |-> Snap(h, v.e[n])])
      [] OTHER -> v

(* ------------------------- call outcomes ------------------------------ *)

(* `out` is the outcome of the last call: the builder it was made on, the  *)
(* method, whether it returned, the value or the error, and whether the    *)
(* call before it was build() on the same builder.  `given` is the data    *)
(* the caller has handed to raw() so far, `added` what the caller has      *)
(* handed to the add-one and add-many setters, in call order.              *)

Returned(i, op, val) ==
    [b |-> i, op |-> op, ok |-> TRUE, val |-> val, err |-> "", field |-> "", cls |-> "", again |-> FALSE]

Thrown(i, op, cls, msg, field) ==
    [b |-> i, op |-> op, ok |-> FALSE, val |-> Undef, err |-> msg, field |-> field, cls |-> cls,
     again |-> FALSE]

\* the outcome of build(), marked when build() was the call before it too
Built(i, res) ==
    [(IF res.ok THEN Returned(i, "build", res.val) ELSE Thrown(i, "build", res.cls, res.err, res.field))
        EXCEPT !.again = (out.op = "build" /\ out.b = i)]

\* what the caller has added to a list so far
Listed(a, section) == IF section \in DOMAIN a THEN a[section] ELSE <<>>

NoteAdded(i, section, items) ==
    [added EXCEPT ![i] = (section :> (Listed(@, section) \o items)) @@ @]

NoteGiven(i, data) == [given EXCEPT ![i] = Obj(data.f @@ @.f)]

\* a setter (raw() included) that returns `this`
ChainNote(i, op, payload, draft, h, g, a) ==
    /\ bld' = [bld EXCEPT ![i].payload = payload, ![i].draft = draft]
    /\ heap' = h
    /\ held' = held
    /\ UNCHANGED <<httpClient, apiCall>>
    /\ given' = g
    /\ added' = a
    /\ out' = Returned(i, "set", Undef)

Chain(i, op, payload, draft, h) == ChainNote(i, op, payload, draft, h, given, added)

\* build() that returns a payload, or throws and drops what the setters have stored
FinishOrDrop(i, res) ==
    /\ bld' = IF res.ok THEN bld ELSE [bld EXCEPT ![i].draft = EmptyObj, ![i].payload = EmptyObj]
    /\ heap' = heap
    /\ held' = held
    /\ UNCHANGED <<httpClient, apiCall>>
    /\ given' = given
    /\ added' = added
    /\ out' = Built(i, res)

\* build() that returns a payload or throws, leaving the builder as it is
Finish(i, res) ==
    /\ bld' = bld
    /\ heap' = heap
    /\ held' = held
    /\ UNCHANGED <<httpClient, apiCall>>
    /\ given' = given
    /\ added' = added
    /\ out' = Built(i, res)

Ok(val) == [ok |-> TRUE, val |-> val, cls |-> "", err |-> "", field |-> ""]
Fail(cls, msg, field) == [ok |-> FALSE, val |-> Undef, cls |-> cls, err |-> msg, field |-> field]

(* --------------------------- BaseDocumentBuilder ---------------------- *)

StubKinds == {"invoicePharm", "hybridInvoice", "contract", "verificationAct", "acceptanceTransfer"}

\* constructor(initial?)
NewBuilder(kind, initial, draft) ==
    [kind |-> kind,
     payload |-> IF Truthy(initial) THEN Spread(EmptyObj, initial) ELSE EmptyObj,
     draft |-> draft]

\* BaseDocumentBuilder.raw: Object.assign(this.payload, data)
BaseRaw(payload, data) == Spread(payload, data)

\* BaseDocumentBuilder.build: { ...this.payload }
BaseBuild(payload) == Spread(EmptyObj, payload)

\* o.k read through a reference
Fld(h, o, k) == Get(Deref(h, o), k)

\* the elements of a list read through a reference
Elems(h, l) == Deref(h, l).e

(* ------------------------------ caller data --------------------------- *)

Builders == {1, 2}

\* `held[i]` is the payload the caller keeps from a build() of builder i and the number of
\* times the caller has written into it
NotKept == [p |-> Undef, n |-> 0]

NoBuilder == [kind |-> "none", payload |-> EmptyObj, draft |-> EmptyObj]

InvoiceSellerIn ==
    Obj([tin |-> S("123456789"), name |-> S("Seller LLC"), vatRegCode |-> S("VAT123"),
         account |-> S("20208000000000001"), bankId |-> S("00014"), address |-> S("Tashkent 1")])

InvoiceBuyerIn ==
    Obj([tin |-> S("987654321"), name |-> S("Buyer LLC"), vatRegCode |-> S("VAT456"),
         account |-> S("20208000000000002"), bankId |-> S("00015"), address |-> S("Tashkent 2")])

\* the second product carries an ordinal of the caller's and no VAT rate
InvoiceProductsIn ==
    {Obj([name |-> S("Item A"), catalogCode |-> S("C1"), packageCode |-> S("P1"),
          packageName |-> S("pcs"), quantity |-> N(10), price |-> N(1000), vatRate |-> N(12),
          origin |-> N(1)]),
     Obj([name |-> S("Item B"), catalogCode |-> S("C2"), packageCode |-> S("P2"),
          packageName |-> S("box"), quantity |-> N(3), price |-> Q(5, 100), vatRate |-> N(12),
          origin |-> N(2), OrdNo |-> N(9)])}

InvoiceFlagsIn == {Obj([hasVat |-> B(TRUE)]), Obj([hasVat |-> B(FALSE), hasExcise |-> B(TRUE)])}

ActPartyIn(tin, name) == Obj([tin |-> S(tin), name |-> S(name)])

ActProductsIn ==
    {Obj([name |-> S("Service A"), catalogCode |-> S("C1"), catalogName |-> S("Cat 1"),
          packageCode |-> S("P1"), packageName |-> S("pcs"), count |-> N(10), price |-> N(1000),
          vatRate |-> N(12)]),
     Obj([name |-> S("Service B"), catalogCode |-> S("C2"), catalogName |-> S("Cat 2"),
          packageCode |-> S("P2"), packageName |-> S("hour"), count |-> N(3), price |-> Q(5, 100),
          withoutVat |-> B(FALSE), lgotaName |-> S("L"), lgotaType |-> N(2), OrdNo |-> N(9)])}

ActFlagsIn == {Obj([hasVat |-> B(TRUE)]), Obj([hasExcise |-> B(TRUE)])}

TtnPartyIn(tin, name) == Obj([tin |-> S(tin), name |-> S(name)])

TtnBranchPartyIn(tin, name) ==
    Obj([tin |-> S(tin), name |-> S(name), branchCode |-> S("B01"), branchName |-> S("Branch")])

TtnTransportIn ==
    Obj([type |-> N(1),
         truck |-> Obj([regNo |-> S("01A123BC"), model |-> S("MAN")]),
         trailer |-> Obj([regNo |-> S("01B456"), model |-> S("Krone")]),
         driver |-> Obj([pinfl |-> S("12345678901234"), fullName |-> S("Driver D")])])

TtnTotalsIn == {Obj([distanceKm |-> N(120), pricePerKm |-> N(10000)]),
                Obj([distanceKm |-> Q(1255, 100), pricePerKm |-> N(3)])}

TtnProductA ==
    Obj([name |-> S("Wheat"), catalogCode |-> S("W1"), catalogName |-> S("Grain"),
         packageCode |-> S("TON"), packageName |-> S("ton"), count |-> N(25), price |-> N(2)])

TtnProductB ==
    Obj([name |-> S("Barley"), catalogCode |-> S("B1"), catalogName |-> S("Grain"),
         packageCode |-> S("TON"), packageName |-> S("ton"), count |-> N(3), price |-> Q(1150, 100),
         OrdNo |-> N(9)])

PointIn(name) == Obj([address |-> S("Street 1"), tin |-> S("123456789"), name |-> S(name)])

TrusteeIn == Obj([pinfl |-> S("12345678901234"), fullName |-> S("Trustee T")])

\* the callbacks handed to addProductGroup: two complete groups and three incomplete ones
GroupFnsIn ==
    {<<[m |-> "loadingPoint", a |-> PointIn("Depot")],
       [m |-> "unloadingPoint", a |-> PointIn("Shop")],
       [m |-> "addProduct", a |-> <<TtnProductA>>]>>,
     <<[m |-> "loadingPoint", a |-> PointIn("Depot")],
       [m |-> "loadingTrustee", a |-> TrusteeIn],
       [m |-> "unloadingPoint", a |-> PointIn("Shop")],
       [m |-> "unloadingTrustee", a |-> TrusteeIn],
       [m |-> "empowerment", a |-> Obj([no |-> S("E-1"), date |-> S("2025-01-01"), series |-> S("AA")])],
       [m |-> "addProduct", a |-> <<TtnProductB>>],
       [m |-> "addProducts", a |-> <<TtnProductA>>]>>,
     <<[m |-> "unloadingPoint", a |-> PointIn("Shop")],
       [m |-> "addProduct", a |-> <<TtnProductA>>]>>,
     <<[m |-> "loadingPoint", a |-> PointIn("Depot")],
       [m |-> "addProduct", a |-> <<TtnProductA>>]>>,
     <<[m |-> "loadingPoint", a |-> PointIn("Depot")],
       [m |-> "unloadingPoint", a |-> PointIn("Shop")],
       [m |-> "addProducts", a |-> <<>>]>>}

CompanyIn(tin, name) ==
    Obj([tin |-> S(tin), name |-> S(name), account |-> S("20208000000000001"), bankId |-> S("00014"),
         address |-> S("Tashkent 1")])

CompanyFullIn(tin, name) ==
    Spread(CompanyIn(tin, name),
           Obj([director |-> S("Director D"), accountant |-> S("Accountant A"),
                branchCode |-> S("B01"), branchName |-> S("Branch")]))

AgentsIn ==
    {Obj([fio |-> S("Agent A"), pinfl |-> S("12345678901234")]),
     Obj([fio |-> S("Agent B"), pinfl |-> S("12345678901234"), jobTitle |-> S("Manager"),
          passport |-> Obj([number |-> S("AA1234567"), issueDate |-> S("2020-01-01")])]),
     Obj([fio |-> S("Agent C"), pinfl |-> S("12345678901234"), jobTitle |-> S(""),
          passport |-> Obj([number |-> S("AA7654321"), issuedBy |-> S("")])])}

EmpowermentProductsIn ==
    {Obj([name |-> S("Cement"), catalogCode |-> S("C1"), catalogName |-> S("Materials"),
          measureId |-> S("1"), count |-> N(100)]),
     Obj([name |-> S("Sand"), catalogCode |-> S("C2"), measureId |-> S("2"), count |-> Q(25, 100),
          OrdNo |-> N(9)])}

LetterPartiesIn(name, tin) ==
    {Obj([name |-> S(name), tin |-> S(tin)]),
     Obj([name |-> S(name), tin |-> S(tin),
          head |-> Obj([branchCode |-> S("B01"), email |-> S("a@b.uz"), website |-> S("https://b.uz"),
                        phones |-> Ref("phn")])])}

\* the arguments of act(no, date, text?): text is Undef when the caller leaves it out
ActHeadersIn ==
    {[no |-> "ACT-1", date |-> "2025-02-07", text |-> Undef],
     [no |-> "ACT-1", date |-> "2025-02-07", text |-> S("done")],
     [no |-> "ACT-2", date |-> "2025-02-08", text |-> Undef],
     [no |-> "ACT-2", date |-> "2025-02-08", text |-> S("")]}

\* the strings handed to html()
HtmlIn == {"<p>Hello</p>", ""}

AttachmentsIn ==
    {Obj([filename |-> S("a.pdf"), mimeType |-> S("application/pdf"), size |-> N(10),
          base64 |-> S("JVBERi0x"), description |-> S("Annex")]),
     Obj([filename |-> S("b.png"), mimeType |-> S("image/png"), size |-> N(20), base64 |-> S("iVBORw0K")])}

FoundersCompaniesIn ==
    {Obj([tin |-> S("123456789"), name |-> S("Company"), fizTin |-> S("12345678901234"),
          fio |-> S("Head H"), address |-> S("Tashkent 1")]),
     Obj([tin |-> S("123456789"), name |-> S("Company"), fizTin |-> S("12345678901234"),
          fio |-> S("Head H"), address |-> S("Tashkent 1"), bankId |-> S("00014"), oked |-> N(62010),
          account |-> S("20208000000000001"), workPhone |-> S("712000000"), mobile |-> S("901234567")])}

ParticipantsIn ==
    {Obj([tin |-> S("11111111111111"), name |-> S("Founder A"), share |-> N(60), chairman |-> B(TRUE)]),
     Obj([tin |-> S("22222222222222"), name |-> S("Founder B"), share |-> S("40"),
          companyTin |-> S("333333333"), companyName |-> S("Holding"), citizenship |-> S("UZ"),
          secretary |-> B(TRUE)])}

\* the second part carries an ordinal of the caller's
PartsIn ==
    {Obj([title |-> S("Agenda 1"), body |-> S("Approve")]),
     Obj([title |-> S("Agenda 2"), body |-> S("Elect"), ordno |-> N(9)])}

DocPartyIn(tin, name) == Obj([tin |-> S(tin), name |-> S(name), address |-> S("Tashkent 1")])

DocBranchPartyIn(tin, name) ==
    Obj([tin |-> S(tin), name |-> S(name), address |-> S("Tashkent 1"), branchCode |-> S("B01"),
         branchName |-> S("Branch")])

\* the second client has no TIN, the third no address
ClientsIn ==
    {DocPartyIn("987654321", "Client A"),
     Obj([name |-> S("Client B"), address |-> S("Tashkent 2")]),
     Obj([tin |-> S("111222333"), name |-> S("Client C")])}

\* lists handed to addProducts
ListsOf(items) == {<<>>} \cup {<<x>> : x \in items} \cup {<<x, y>> : x \in items, y \in items}

\* the objects the caller keeps a reference to
Cells == {"hdr", "ilst", "alst", "obj", "con", "sel", "snd", "shd", "com", "dat", "mdt", "dsl", "phn"}

InitHeap ==
    [c \in Cells |->
        CASE c = "hdr" -> Obj([no |-> S("R-7"), date |-> S("2025-01-01"), text |-> S("raw text")])
          [] c = "ilst" -> Arr(<<CHOOSE x \in InvoiceProductsIn : Get(x, "quantity") = N(10)>>)
          [] c = "alst" -> Arr(<<Obj([name |-> S("Service R"), catalogCode |-> S("C3"),
                                       catalogName |-> S("Cat 3"), packageCode |-> S("P3"),
                                       packageName |-> S("pcs"), count |-> N(2), price |-> N(500),
                                       vatRate |-> N(12), withoutVat |-> B(TRUE)])>>)
          [] c = "obj" -> Obj([a |-> N(1)])
          [] c = "con" -> Obj([ConsignorTin |-> S("000000000")])
          [] c = "sel" -> Obj([Director |-> S("X")])
          [] c = "snd" -> Obj([Tin |-> S("000000000"), Head |-> Ref("shd")])
          [] c = "shd" -> Obj([Email |-> S("raw@x.uz"), Phones |-> Arr(<<S("+998000000000")>>)])
          [] c = "com" -> Obj([oked |-> N(7)])
          [] c = "dat" -> Obj([Seller |-> Ref("dsl")])
          [] c = "mdt" -> Obj([Owner |-> Ref("dsl")])
          [] c = "dsl" -> Obj([BranchCode |-> S("X")])
          [] c = "phn" -> Arr(<<S("+998901234567")>>)]

\* what the caller passes to raw()
RawIn(kind) ==
    CASE kind = "invoice" ->
            {Obj([factura |-> Ref("hdr")]), Obj([products |-> Ref("ilst")]), Obj([Version |-> N(2)])}
      [] kind = "act" ->
            {Obj([act |-> Ref("hdr")]), Obj([products |-> Ref("alst")]), Obj([SellerTin |-> S("000000000")])}
      [] kind = "empowerment" ->
            {Obj([Seller |-> Ref("sel")]), Obj([Note |-> S("n")]),
             Obj([ProductList |-> Obj([HasVat |-> B(TRUE),
                                       Products |-> Arr(<<Obj([Name |-> S("Raw name")])>>)])])}
      [] kind = "letterNK" ->
            {Obj([Sender |-> Ref("snd")]), Obj([Note |-> S("n")])}
      [] kind = "foundersProtocol" ->
            {Obj([company |-> Ref("com")]), Obj([Note |-> S("n")])}
      [] kind = "arbitrary" ->
            {Obj([data |-> Ref("dat")]), Obj([Note |-> S("n")])}
      [] kind = "multiParty" ->
            {Obj([data |-> Ref("mdt")]), Obj([Note |-> S("n")])}
      [] kind = "ttn" ->
            {Obj([FieldA |-> N(1), Consignor |-> Ref("con")]), Obj([FieldA |-> N(2)])}
      [] OTHER ->
            {Obj([FieldA |-> N(1)]), Obj([FieldA |-> N(2), Extra |-> Ref("obj")])}

(* ------------------------------ InvoiceBuilder ------------------------ *)

Invoice_factura(i, no, date) ==
    /\ bld[i].kind = "invoice"
    /\ LET p0 == bld[i].payload
           p1 == IF ~Truthy(Get(p0, "factura"))
                 THEN Put(p0, "factura", Obj([no |-> S(""), date |-> S("")])) ELSE p0
           w1 == SetField(heap, Get(p1, "factura"), "no", S(no))
           w2 == SetField(w1.h, w1.v, "date", S(date))
       IN Chain(i, "factura", Put(p1, "factura", w2.v), bld[i].draft, w2.h)

Invoice_contract(i, no, date) ==
    /\ bld[i].kind = "invoice"
    /\ Chain(i, "contract", Put(bld[i].payload, "contract", Obj([no |-> S(no), date |-> S(date)])),
             bld[i].draft, heap)

Invoice_seller(i, data) ==
    /\ bld[i].kind = "invoice"
    /\ Chain(i, "seller", Put(bld[i].payload, "seller", data), bld[i].draft, heap)

Invoice_buyer(i, data) ==
    /\ bld[i].kind = "invoice"
    /\ Chain(i, "buyer", Put(bld[i].payload, "buyer", data), bld[i].draft, heap)

\* addProduct and addProducts of the invoice and act builders: push onto payload.products
PushProducts(i, op, products) ==
    LET p0 == bld[i].payload
        p1 == IF ~Truthy(Get(p0, "products")) THEN Put(p0, "products", Arr(<<>>)) ELSE p0
        w == Push(heap, Get(p1, "products"), products)
    IN /\ Len(Elems(heap, Get(p1, "products"))) + Len(products) <= MaxProducts
       /\ ChainNote(i, op, Put(p1, "products", w.v), bld[i].draft, w.h, given,
                    NoteAdded(i, "products", products))

Invoice_addProduct(i, product) ==
    /\ bld[i].kind = "invoice"
    /\ PushProducts(i, "addProduct", <<product>>)

Invoice_addProducts(i, products) ==
    /\ bld[i].kind = "invoice"
    /\ PushProducts(i, "addProducts", products)

Invoice_flags(i, flags) ==
    /\ bld[i].kind = "invoice"
    /\ Chain(i, "flags", Put(bld[i].payload, "flags", flags), bld[i].draft, heap)

InvoiceLine(flags, product, index) ==
    LET deliverySum == Mul(Get(product, "quantity"), Get(product, "price"))
        vatRate == Nullish(Get(product, "vatRate"), N(0))
        vatSum == IF Truthy(Get(flags, "hasVat")) /\ Gt0(vatRate)
                  THEN Div100(Mul(deliverySum, vatRate)) ELSE N(0)
        deliverySumWithVat == Add(deliverySum, vatSum)
    IN Obj([OrdNo |-> N(index + 1),
            Name |-> Get(product, "name"),
            CatalogCode |-> Get(product, "catalogCode"),
            PackageCode |-> Get(product, "packageCode"),
            PackageName |-> Get(product, "packageName"),
            Count |-> Get(product, "quantity"),
            Summa |-> deliverySumWithVat,
            DeliverySum |-> deliverySum,
            VatRate |-> vatRate,
            VatSum |-> vatSum,
            DeliverySumWithVat |-> deliverySumWithVat,
            WithoutVat |-> B(~Truthy(Get(flags, "hasVat"))),
            Origin |-> Get(product, "origin")])

\* InvoiceBuilder.build as a function of the heap and this.payload
InvoiceBuild(h, p) ==
    IF ~Truthy(Get(p, "factura")) THEN Fail("Error", "Invoice factura information is required", "")
    ELSE IF ~Truthy(Get(p, "seller")) THEN Fail("Error", "Seller information is required", "")
    ELSE IF ~Truthy(Get(p, "buyer")) THEN Fail("Error", "Buyer information is required", "")
    ELSE IF ~Truthy(Get(p, "products")) \/ Len(Elems(h, Get(p, "products"))) = 0
         THEN Fail("Error", "At least one product is required", "")
    ELSE
    LET flags == OrElse(Get(p, "flags"), EmptyObj)
        factura == Get(p, "factura")
        seller == Get(p, "seller")
        buyer == Get(p, "buyer")
        apiPayload ==
            Obj([Version |-> N(1),
                 FacturaType |-> N(0),
                 FacturaDoc |-> Obj([FacturaNo |-> Fld(h, factura, "no"),
                                     FacturaDate |-> Fld(h, factura, "date")]),
                 SellerTin |-> Fld(h, seller, "tin"),
                 Seller |-> Obj([Name |-> Fld(h, seller, "name"),
                                 VatRegCode |-> Fld(h, seller, "vatRegCode"),
                                 Account |-> Fld(h, seller, "account"),
                                 BankId |-> Fld(h, seller, "bankId"),
                                 Address |-> Fld(h, seller, "address")]),
                 BuyerTin |-> Fld(h, buyer, "tin"),
                 Buyer |-> Obj([Name |-> Fld(h, buyer, "name"),
                                VatRegCode |-> Fld(h, buyer, "vatRegCode"),
                                Account |-> Fld(h, buyer, "account"),
                                BankId |-> Fld(h, buyer, "bankId"),
                                Address |-> Fld(h, buyer, "address")]),
                 ProductList |->
                     Obj([Tin |-> Fld(h, seller, "tin"),
                          HasVat |-> Nullish(Get(flags, "hasVat"), B(FALSE)),
                          HasExcise |-> Nullish(Get(flags, "hasExcise"), B(FALSE)),
                          HasLgota |-> Nullish(Get(flags, "hasLgota"), B(FALSE)),
                          HasCommittent |-> Nullish(Get(flags, "hasCommittent"), B(FALSE)),
                          Products |-> Arr(MapIdx(Elems(h, Get(p, "products")),
                                           LAMBDA product, n : InvoiceLine(flags, Deref(h, product), n)))])])
        contract == Get(p, "contract")
    IN Ok(IF Truthy(contract)
          THEN Put(apiPayload, "ContractDoc", Obj([ContractNo |-> Fld(h, contract, "no"),
                                                    ContractDate |-> Fld(h, contract, "date")]))
          ELSE apiPayload)

Invoice_build(i) ==
    /\ bld[i].kind = "invoice"
    /\ Finish(i, InvoiceBuild(heap, bld[i].payload))

(* -------------------------------- ActBuilder -------------------------- *)

\* a header setter that stores a new header: this.payload.act = { no, date, text }
Act_actReplacing(i, no, date, text) ==
    /\ bld[i].kind = "act"
    /\ Chain(i, "act",
             Put(bld[i].payload, "act",
                 Spread(Obj([no |-> S(no), date |-> S(date)]),
                        SpreadIf(text.t # "undef", Obj([text |-> text])))),
             bld[i].draft, heap)

\* text is Undef when the caller leaves it out
Act_act(i, no, date, text) ==
    /\ bld[i].kind = "act"
    /\ LET p0 == bld[i].payload
           p1 == IF ~Truthy(Get(p0, "act"))
                 THEN Put(p0, "act", Obj([no |-> S(""), date |-> S("")])) ELSE p0
           w1 == SetField(heap, Get(p1, "act"), "no", S(no))
           w2 == SetField(w1.h, w1.v, "date", S(date))
           w3 == IF text.t # "undef" THEN SetField(w2.h, w2.v, "text", text) ELSE w2
       IN Chain(i, "act", Put(p1, "act", w3.v), bld[i].draft, w3.h)

Act_contract(i, no, date) ==
    /\ bld[i].kind = "act"
    /\ Chain(i, "contract", Put(bld[i].payload, "contract", Obj([no |-> S(no), date |-> S(date)])),
             bld[i].draft, heap)

Act_seller(i, data) ==
    /\ bld[i].kind = "act"
    /\ Chain(i, "seller", Put(bld[i].payload, "seller", data), bld[i].draft, heap)

Act_buyer(i, data) ==
    /\ bld[i].kind = "act"
    /\ Chain(i, "buyer", Put(bld[i].payload, "buyer", data), bld[i].draft, heap)

Act_addProduct(i, product) ==
    /\ bld[i].kind = "act"
    /\ PushProducts(i, "addProduct", <<product>>)

Act_addProducts(i, products) ==
    /\ bld[i].kind = "act"
    /\ PushProducts(i, "addProducts", products)

Act_flags(i, flags) ==
    /\ bld[i].kind = "act"
    /\ Chain(i, "flags", Put(bld[i].payload, "flags", flags), bld[i].draft, heap)

\* the line with VAT charged whether or not the document carries the hasVat flag
ActLineVatAlways(flags, product, index) ==
    LET totalSumWithoutVat == Mul(Get(product, "count"), Get(product, "price"))
        vatRate == Nullish(Get(product, "vatRate"), N(0))
        vatSum == IF Gt0(vatRate) THEN Div100(Mul(totalSumWithoutVat, vatRate)) ELSE N(0)
        totalSum == Add(totalSumWithoutVat, vatSum)
    IN Obj([OrdNo |-> N(index + 1),
            CatalogCode |-> Get(product, "catalogCode"),
            CatalogName |-> Get(product, "catalogName"),
            Name |-> Get(product, "name"),
            MeasureId |-> Null,
            PackageCode |-> Get(product, "packageCode"),
            PackageName |-> Get(product, "packageName"),
            Count |-> S(NumToString(Get(product, "count"))),
            Summa |-> S(NumToString(totalSum)),
            TotalSumWithoutVat |-> S(ToFixed2(totalSumWithoutVat)),
            VatRate |-> S(NumToString(vatRate)),
            VatSum |-> S(ToFixed2(vatSum)),
            TotalSum |-> S(ToFixed2(totalSum)),
            WithoutVat |-> Nullish(Get(product, "withoutVat"), B(~Truthy(Get(flags, "hasVat")))),
            LgotaName |-> Nullish(Get(product, "lgotaName"), Null),
            LgotaType |-> Nullish(Get(product, "lgotaType"), Null)])

\* the line with the flag the invoice builder writes: the negation of hasVat, whatever the product says
ActLineFlagOnly(flags, product, index) ==
    LET totalSumWithoutVat == Mul(Get(product, "count"), Get(product, "price"))
        vatRate == Nullish(Get(product, "vatRate"), N(0))
        vatSum == IF Truthy(Get(flags, "hasVat")) /\ Gt0(vatRate)
                  THEN Div100(Mul(totalSumWithoutVat, vatRate)) ELSE N(0)
        totalSum == Add(totalSumWithoutVat, vatSum)
    IN Obj([OrdNo |-> N(index + 1),
            CatalogCode |-> Get(product, "catalogCode"),
            CatalogName |-> Get(product, "catalogName"),
            Name |-> Get(product, "name"),
            MeasureId |-> Null,
            PackageCode |-> Get(product, "packageCode"),
            PackageName |-> Get(product, "packageName"),
            Count |-> S(NumToString(Get(product, "count"))),
            Summa |-> S(NumToString(totalSum)),
            TotalSumWithoutVat |-> S(ToFixed2(totalSumWithoutVat)),
            VatRate |-> S(NumToString(vatRate)),
            VatSum |-> S(ToFixed2(vatSum)),
            TotalSum |-> S(ToFixed2(totalSum)),
            WithoutVat |-> B(~Truthy(Get(flags, "hasVat"))),
            LgotaName |-> Nullish(Get(product, "lgotaName"), Null),
            LgotaType |-> Nullish(Get(product, "lgotaType"), Null)])

ActLine(flags, product, index) ==
    LET totalSumWithoutVat == Mul(Get(product, "count"), Get(product, "price"))
        vatRate == Nullish(Get(product, "vatRate"), N(0))
        vatSum == IF Truthy(Get(flags, "hasVat")) /\ Gt0(vatRate)
                  THEN Div100(Mul(totalSumWithoutVat, vatRate)) ELSE N(0)
        totalSum == Add(totalSumWithoutVat, vatSum)
    IN Obj([OrdNo |-> N(index + 1),
            CatalogCode |-> Get(product, "catalogCode"),
            CatalogName |-> Get(product, "catalogName"),
            Name |-> Get(product, "name"),
            MeasureId |-> Null,
            PackageCode |-> Get(product, "packageCode"),
            PackageName |-> Get(product, "packageName"),
            Count |-> S(NumToString(Get(product, "count"))),
            Summa |-> S(NumToString(totalSum)),
            TotalSumWithoutVat |-> S(ToFixed2(totalSumWithoutVat)),
            VatRate |-> S(NumToString(vatRate)),
            VatSum |-> S(ToFixed2(vatSum)),
            TotalSum |-> S(ToFixed2(totalSum)),
            WithoutVat |-> Nullish(Get(product, "withoutVat"), B(~Truthy(Get(flags, "hasVat")))),
            LgotaName |-> Nullish(Get(product, "lgotaName"), Null),
            LgotaType |-> Nullish(Get(product, "lgotaType"), Null)])

\* ActBuilder.build as a function of the heap and this.payload
ActBuild(h, p) ==
    IF ~Truthy(Get(p, "act")) THEN Fail("Error", "Act document information is required", "")
    ELSE IF ~Truthy(Get(p, "seller")) THEN Fail("Error", "Seller information is required", "")
    ELSE IF ~Truthy(Get(p, "buyer")) THEN Fail("Error", "Buyer information is required", "")
    ELSE IF ~Truthy(Get(p, "products")) \/ Len(Elems(h, Get(p, "products"))) = 0
         THEN Fail("Error", "At least one product/service is required", "")
    ELSE
    LET flags == OrElse(Get(p, "flags"), EmptyObj)
        act == Get(p, "act")
        seller == Get(p, "seller")
        buyer == Get(p, "buyer")
        apiPayload ==
            Obj([ActDoc |-> Spread(Obj([ActNo |-> Fld(h, act, "no"), ActDate |-> Fld(h, act, "date")]),
                                   SpreadIf(Truthy(Fld(h, act, "text")),
                                            Obj([ActText |-> Fld(h, act, "text")]))),
                 SellerTin |-> Fld(h, seller, "tin"),
                 ProductList |->
                     Obj([Tin |-> Fld(h, seller, "tin"),
                          HasVat |-> Nullish(Get(flags, "hasVat"), B(FALSE)),
                          HasExcise |-> Nullish(Get(flags, "hasExcise"), B(FALSE)),
                          Products |-> Arr(MapIdx(Elems(h, Get(p, "products")),
                                           LAMBDA product, n : ActLine(flags, Deref(h, product), n)))]),
                 SellerName |-> Fld(h, seller, "name"),
                 SellerBranchCode |-> Nullish(Fld(h, seller, "branchCode"), S("")),
                 SellerBranchName |-> Nullish(Fld(h, seller, "branchName"), S("")),
                 BuyerTin |-> Fld(h, buyer, "tin"),
                 BuyerName |-> Fld(h, buyer, "name"),
                 BuyerBranchCode |-> Nullish(Fld(h, buyer, "branchCode"), S("")),
                 BuyerBranchName |-> Nullish(Fld(h, buyer, "branchName"), S(""))])
        contract == Get(p, "contract")
    IN Ok(IF Truthy(contract)
          THEN Put(apiPayload, "ContractDoc", Obj([ContractNo |-> Fld(h, contract, "no"),
                                                    ContractDate |-> Fld(h, contract, "date")]))
          ELSE apiPayload)

Act_build(i) ==
    /\ bld[i].kind = "act"
    /\ Finish(i, ActBuild(heap, bld[i].payload))

(* ----------------------- TtnProductGroupBuilder ----------------------- *)
(* A call of the sub-builder is [m |-> method, a |-> argument]; the        *)
(* callback handed to addProductGroup is the sequence of calls it makes.   *)

\* loadingPoint, loadingTrustee, unloadingPoint, unloadingTrustee, empowerment: groupData[m] = a
\* addProduct, addProducts: groupData.products.push(...)
GroupCall(groupData, call) ==
    IF call.m \in {"addProduct", "addProducts"}
    THEN LET g1 == IF ~Truthy(Get(groupData, "products"))
                   THEN Put(groupData, "products", Arr(<<>>)) ELSE groupData
         IN Put(g1, "products", Arr(Get(g1, "products").e \o call.a))
    ELSE Put(groupData, call.m, call.a)

RECURSIVE GroupCalls(_, _)
GroupCalls(groupData, calls) ==
    IF calls = <<>> THEN groupData
    ELSE GroupCalls(GroupCall(groupData, Head(calls)), Tail(calls))

\* TtnProductGroupBuilder.build
GroupBuild(groupData) ==
    IF ~Truthy(Get(groupData, "loadingPoint"))
    THEN Fail("Error", "Loading point is required for product group", "")
    ELSE IF ~Truthy(Get(groupData, "unloadingPoint"))
    THEN Fail("Error", "Unloading point is required for product group", "")
    ELSE IF ~Truthy(Get(groupData, "products")) \/ Len(Get(groupData, "products").e) = 0
    THEN Fail("Error", "At least one product is required for product group", "")
    ELSE Ok(groupData)

(* -------------------------------- TtnBuilder -------------------------- *)

\* the setters that store their argument: this.dxPayload[section] = value
Ttn_set(i, section, value) ==
    /\ bld[i].kind = "ttn"
    /\ Chain(i, section, bld[i].payload, Put(bld[i].draft, section, value), heap)

Ttn_waybill(i, no, date, options) ==
    Ttn_set(i, "waybill",
            Spread(Obj([no |-> S(no), date |-> S(date), deliveryType |-> Get(options, "deliveryType")]),
                   SpreadIf(Get(options, "localType").t # "undef",
                            Obj([localType |-> Get(options, "localType")]))))

Ttn_contract(i, no, date) == Ttn_set(i, "contract", Obj([no |-> S(no), date |-> S(date)]))

Ttn_consignor(i, consignor) == Ttn_set(i, "consignor", consignor)

Ttn_consignee(i, consignee) == Ttn_set(i, "consignee", consignee)

Ttn_carrier(i, carrier) == Ttn_set(i, "carrier", carrier)

Ttn_freightForwarder(i, freightForwarder) == Ttn_set(i, "freightForwarder", freightForwarder)

Ttn_client(i, client) == Ttn_set(i, "client", client)

Ttn_payer(i, payer) == Ttn_set(i, "payer", payer)

Ttn_transport(i, transport) == Ttn_set(i, "transport", transport)

Ttn_totals(i, totals) == Ttn_set(i, "totals", totals)

Ttn_responsiblePerson(i, person) == Ttn_set(i, "responsiblePerson", person)

Ttn_flags(i, flags) == Ttn_set(i, "flags", flags)

RECURSIVE GroupProducts(_)
\* the products a callback hands to addProduct and addProducts, in call order
GroupProducts(calls) ==
    IF calls = <<>> THEN <<>>
    ELSE (IF Head(calls).m \in {"addProduct", "addProducts"} THEN Head(calls).a ELSE <<>>)
         \o GroupProducts(Tail(calls))

\* addProductGroup that pushes what the callback configured and validates it afterwards
Ttn_addProductGroupPushFirst(i, builderFn) ==
    /\ bld[i].kind = "ttn"
    /\ LET groupData == GroupCalls(EmptyObj, builderFn)
           productGroup == GroupBuild(groupData)
           d0 == bld[i].draft
           d1 == IF ~Truthy(Get(d0, "productGroups")) THEN Put(d0, "productGroups", Arr(<<>>)) ELSE d0
       IN /\ Len(Get(d1, "productGroups").e) < MaxGroups
          /\ bld' = [bld EXCEPT ![i].draft = Put(d1, "productGroups",
                                                 Arr(Append(Get(d1, "productGroups").e, groupData)))]
          /\ heap' = heap
          /\ held' = held
          /\ UNCHANGED <<httpClient, apiCall>>
          /\ given' = given
          /\ added' = IF productGroup.ok
                      THEN NoteAdded(i, "productGroups", <<GroupProducts(builderFn)>>) ELSE added
          /\ out' = IF productGroup.ok THEN Returned(i, "set", Undef)
                    ELSE Thrown(i, "addProductGroup", productGroup.cls, productGroup.err, "")

\* builderFn is the sequence of calls the callback makes on the new sub-builder
Ttn_addProductGroup(i, builderFn) ==
    /\ bld[i].kind = "ttn"
    /\ LET productGroup == GroupBuild(GroupCalls(EmptyObj, builderFn))
           d0 == bld[i].draft
           d1 == IF ~Truthy(Get(d0, "productGroups")) THEN Put(d0, "productGroups", Arr(<<>>)) ELSE d0
       IN IF ~productGroup.ok
          THEN /\ bld' = bld
               /\ heap' = heap
               /\ held' = held
               /\ UNCHANGED <<httpClient, apiCall>>
               /\ given' = given
               /\ added' = added
               /\ out' = Thrown(i, "addProductGroup", productGroup.cls, productGroup.err, "")
          ELSE /\ Len(Get(d1, "productGroups").e) < MaxGroups
               /\ ChainNote(i, "addProductGroup", bld[i].payload,
                            Put(d1, "productGroups",
                                Arr(Append(Get(d1, "productGroups").e, productGroup.val))),
                            heap, given, NoteAdded(i, "productGroups", <<GroupProducts(builderFn)>>))

\* the Tin/Name/BranchCode/BranchName block of a party, keys prefixed by the role
PartyBlock(role, party) ==
    Obj(((role \o "Tin") :> Get(party, "tin"))
        @@ ((role \o "Name") :> Get(party, "name"))
        @@ ((role \o "BranchCode") :> Nullish(Get(party, "branchCode"), S("")))
        @@ ((role \o "BranchName") :> Nullish(Get(party, "branchName"), S(""))))

\* the line with the ordinal the caller's product carries, when it carries one
TtnLineCallerOrdinal(totals, product, productIndex) ==
    LET amount == Mul(Get(product, "count"), Get(product, "price"))
        deliverySum == MathRound(Mul(Div100(amount), Get(totals, "pricePerKm")))
    IN Obj([OrdNo |-> Nullish(Get(product, "OrdNo"), N(productIndex + 1)),
            CatalogCode |-> Get(product, "catalogCode"),
            CatalogName |-> Get(product, "catalogName"),
            Name |-> Get(product, "name"),
            PackageCode |-> Get(product, "packageCode"),
            PackageName |-> Get(product, "packageName"),
            Count |-> S(NumToString(Get(product, "count"))),
            Amount |-> S(NumToString(amount)),
            DeliverySum |-> S(NumToString(deliverySum))])

TtnLine(totals, product, productIndex) ==
    LET amount == Mul(Get(product, "count"), Get(product, "price"))
        deliverySum == MathRound(Mul(Div100(amount), Get(totals, "pricePerKm")))
    IN Obj([OrdNo |-> N(productIndex + 1),
            CatalogCode |-> Get(product, "catalogCode"),
            CatalogName |-> Get(product, "catalogName"),
            Name |-> Get(product, "name"),
            PackageCode |-> Get(product, "packageCode"),
            PackageName |-> Get(product, "packageName"),
            Count |-> S(NumToString(Get(product, "count"))),
            Amount |-> S(NumToString(amount)),
            DeliverySum |-> S(NumToString(deliverySum))])

TtnGroup(totals, group, groupIndex) ==
    LET lp == Get(group, "loadingPoint")
        up == Get(group, "unloadingPoint")
        lt == Get(group, "loadingTrustee")
        ut == Get(group, "unloadingTrustee")
        em == Get(group, "empowerment")
        point(q) == Obj([Address |-> Get(q, "address"), Tin |-> Get(q, "tin"), Name |-> Get(q, "name")])
        person(q) == Obj([Pinfl |-> Get(q, "pinfl"), FullName |-> Get(q, "fullName")])
    IN Spread(Spread(Spread(Spread(
         Obj([OrdNo |-> N(groupIndex + 1), LoadingPoint |-> point(lp)]),
         SpreadIf(Truthy(lt), Obj([LoadingTrustee |-> person(lt)]))),
         Obj([UnloadingPoint |-> point(up)])),
         SpreadIf(Truthy(ut), Obj([UnloadingTrustee |-> person(ut)]))),
         Spread(SpreadIf(Truthy(em),
                    Obj([Empowerment |->
                           Spread(Obj([EmpowermentNo |-> Get(em, "no"), EmpowermentDate |-> Get(em, "date")]),
                                  SpreadIf(Truthy(Get(em, "series")),
                                           Obj([EmpowermentSeries |-> Get(em, "series")])))])),
                Obj([ProductList |-> Arr(MapIdx(Get(group, "products").e,
                                         LAMBDA product, n : TtnLine(totals, product, n)))])))

\* the spread written the other way round: { ...this.payload, ...apiPayload }
TtnMergeGeneratedLast(apiPayload, payload) == Spread(payload, apiPayload)

\* the return of TtnBuilder.build: { ...apiPayload, ...this.payload }
TtnMerge(apiPayload, payload) == Spread(apiPayload, payload)

\* TtnBuilder.build as a function of this.dxPayload and this.payload
TtnBuild(draft, payload) ==
    IF ~Truthy(Get(draft, "waybill")) THEN Fail("Error", "Waybill information is required", "")
    ELSE IF ~Truthy(Get(draft, "consignor")) THEN Fail("Error", "Consignor is required", "")
    ELSE IF ~Truthy(Get(draft, "consignee")) THEN Fail("Error", "Consignee is required", "")
    ELSE IF ~Truthy(Get(draft, "carrier")) THEN Fail("Error", "Carrier is required", "")
    ELSE IF ~Truthy(Get(draft, "transport")) THEN Fail("Error", "Transport information is required", "")
    ELSE IF ~Truthy(Get(draft, "productGroups")) \/ Len(Get(draft, "productGroups").e) = 0
         THEN Fail("Error", "At least one product group is required", "")
    ELSE IF ~Truthy(Get(draft, "totals")) THEN Fail("Error", "Totals information is required", "")
    ELSE IF ~Truthy(Get(draft, "responsiblePerson")) THEN Fail("Error", "Responsible person is required", "")
    ELSE
    LET waybill == Get(draft, "waybill")
        contract == Get(draft, "contract")
        transport == Get(draft, "transport")
        totals == Get(draft, "totals")
        flags == Get(draft, "flags")
        person == Get(draft, "responsiblePerson")
        totalDeliveryCost == Mul(Get(totals, "distanceKm"), Get(totals, "pricePerKm"))
        optParty(section, role) ==
            SpreadIf(Truthy(Get(draft, section)), Obj((role :> PartyBlock(role, Get(draft, section)))))
        vehicle(q) == Obj([RegNo |-> Get(q, "regNo"), Model |-> Get(q, "model")])
        roadway ==
            Spread(Spread(
              Obj([Truck |-> vehicle(Get(transport, "truck"))]),
              SpreadIf(Truthy(Get(transport, "trailer")), Obj([Trailer |-> vehicle(Get(transport, "trailer"))]))),
              Obj([Driver |-> Obj([Pinfl |-> Get(Get(transport, "driver"), "pinfl"),
                                   FullName |-> Get(Get(transport, "driver"), "fullName")]),
                   ProductGroups |-> Arr(MapIdx(Get(draft, "productGroups").e,
                                          LAMBDA group, n : TtnGroup(totals, group, n)))]))
        apiPayload ==
            Spread(Spread(Spread(Spread(Spread(Spread(Spread(
              Obj([WaybillLocalType |-> Nullish(Get(waybill, "localType"), N(0)),
                   DeliveryType |-> Get(waybill, "deliveryType"),
                   WaybillDoc |-> Obj([WaybillNo |-> Get(waybill, "no"),
                                       WaybillDate |-> Get(waybill, "date")])]),
              SpreadIf(Truthy(contract),
                       Obj([ContractDoc |-> Obj([ContractNo |-> Get(contract, "no"),
                                                 ContractDate |-> Get(contract, "date")])]))),
              Obj([Consignor |-> PartyBlock("Consignor", Get(draft, "consignor")),
                   Consignee |-> PartyBlock("Consignee", Get(draft, "consignee")),
                   Carrier |-> PartyBlock("Carrier", Get(draft, "carrier"))])),
              Spread(Spread(optParty("freightForwarder", "FreightForwarder"),
                            optParty("client", "Client")),
                     optParty("payer", "Payer"))),
              Obj([TransportType |-> Get(transport, "type"),
                   Roadway |-> roadway,
                   ResponsiblePerson |-> Obj([Pinfl |-> Get(person, "pinfl"),
                                              FullName |-> Get(person, "fullName")]),
                   TotalDistance |-> S(ToFixed2(Get(totals, "distanceKm"))),
                   DeliveryCost |-> S(NumToString(Get(totals, "pricePerKm"))),
                   TotalDeliveryCost |-> S(ToFixed2(totalDeliveryCost))])),
              SpreadIf(Get(flags, "hasCommittent").t # "undef",
                       Obj([HasCommittent |-> Get(flags, "hasCommittent")]))),
              SpreadIf(Get(flags, "singleSidedType").t # "undef",
                       Obj([SingleSidedType |-> Get(flags, "singleSidedType")]))),
              Obj([isValid |-> B(TRUE)]))
    IN Ok(TtnMerge(apiPayload, payload))

Ttn_build(i) ==
    /\ bld[i].kind = "ttn"
    /\ Finish(i, TtnBuild(bld[i].draft, bld[i].payload))

(* ------------------------------ deep merge ---------------------------- *)

\* the own enumerable properties of an object or an array (index keys "0", "1", ...)
Props(x) ==
    IF x.t = "arr"
    THEN [key \in {ToString(n - 1) : n \in 1..Len(x.e)} |->
             x.e[CHOOSE n \in 1..Len(x.e) : ToString(n - 1) = key]]
    ELSE x.f

RECURSIVE deepMerge(_, _, _)
RECURSIVE deepMergePlain(_, _, _)
\* a recursive merge that descends into plain objects only and replaces a list by the source's
deepMergePlain(h, target, source) ==
    LET tp == Props(Deref(h, target))
        sp == Props(Deref(h, source))
    IN Obj([key \in DOMAIN tp \cup DOMAIN sp |->
              IF key \in DOMAIN sp
              THEN IF Deref(h, sp[key]).t = "obj" /\ key \in DOMAIN tp /\ Deref(h, tp[key]).t = "obj"
                   THEN deepMergePlain(h, tp[key], sp[key])
                   ELSE sp[key]
              ELSE tp[key]])

\* Object.assign in place of the recursive merge
shallowMerge(h, target, source) == Spread(Deref(h, target), Deref(h, source))

\* EmpowermentBuilder.deepMerge and LetterNKBuilder.deepMerge (the same text)
deepMerge(h, target, source) ==
    LET tp == Props(Deref(h, target))
        sp == Props(Deref(h, source))
    IN Obj([key \in DOMAIN tp \cup DOMAIN sp |->
              IF key \in DOMAIN sp
              THEN IF IsObject(h, sp[key]) /\ key \in DOMAIN tp /\ IsObject(h, tp[key])
                   THEN deepMerge(h, tp[key], sp[key])
                   ELSE sp[key]
              ELSE tp[key]])

\* the setters of the builders that keep a separate draft: this.draft[section] = value
Draft_set(i, kind, section, value) ==
    /\ bld[i].kind = kind
    /\ Chain(i, section, bld[i].payload, Put(bld[i].draft, section, value), heap)

\* an add-many setter that rejects an empty list on the spot
Draft_pushEager(i, kind, section, items, max) ==
    /\ bld[i].kind = kind
    /\ LET d0 == bld[i].draft
           d1 == IF ~Truthy(Get(d0, section)) THEN Put(d0, section, Arr(<<>>)) ELSE d0
       IN IF items = <<>>
          THEN /\ bld' = bld
               /\ heap' = heap
               /\ held' = held
               /\ UNCHANGED <<httpClient, apiCall>>
               /\ given' = given
               /\ added' = added
               /\ out' = Thrown(i, "set", "DidoxValidationError", "At least one item is required", section)
          ELSE /\ Len(Get(d1, section).e) + Len(items) <= max
               /\ ChainNote(i, section, bld[i].payload,
                            Put(d1, section, Arr(Get(d1, section).e \o items)),
                            heap, given, NoteAdded(i, section, items))

\* the add-one and add-many setters of the builders that keep a separate draft
Draft_push(i, kind, section, items, max) ==
    /\ bld[i].kind = kind
    /\ LET d0 == bld[i].draft
           d1 == IF ~Truthy(Get(d0, section)) THEN Put(d0, section, Arr(<<>>)) ELSE d0
       IN /\ Len(Get(d1, section).e) + Len(items) <= max
          /\ ChainNote(i, section, bld[i].payload, Put(d1, section, Arr(Get(d1, section).e \o items)),
                       heap, given, NoteAdded(i, section, items))

(* ---------------------------- EmpowermentBuilder ---------------------- *)

Empowerment_empowerment(i, no, issueDate, expireDate) ==
    Draft_set(i, "empowerment", "empowerment",
              Obj([no |-> S(no), issueDate |-> S(issueDate), expireDate |-> S(expireDate)]))

Empowerment_contract(i, no, date) ==
    Draft_set(i, "empowerment", "contract", Obj([no |-> S(no), date |-> S(date)]))

Empowerment_agent(i, agentInfo) == Draft_set(i, "empowerment", "agent", agentInfo)

Empowerment_seller(i, sellerInfo) == Draft_set(i, "empowerment", "seller", sellerInfo)

Empowerment_buyer(i, buyerInfo) == Draft_set(i, "empowerment", "buyer", buyerInfo)

Empowerment_addProduct(i, product) == Draft_push(i, "empowerment", "products", <<product>>, MaxProducts)

Empowerment_addProducts(i, products) == Draft_push(i, "empowerment", "products", products, MaxProducts)

EmpowermentCompany(company) ==
    Obj([Name |-> Get(company, "name"),
         Address |-> Get(company, "address"),
         BankAccount |-> Get(company, "account"),
         BankId |-> Get(company, "bankId"),
         Director |-> OrElse(Get(company, "director"), S("")),
         Accountant |-> OrElse(Get(company, "accountant"), S("")),
         BranchCode |-> OrElse(Get(company, "branchCode"), S("")),
         BranchName |-> OrElse(Get(company, "branchName"), S(""))])

EmpowermentLine(product, index) ==
    Obj([OrdNo |-> N(index + 1),
         CatalogCode |-> Get(product, "catalogCode"),
         CatalogName |-> OrElse(Get(product, "catalogName"), S("")),
         Name |-> Get(product, "name"),
         MeasureId |-> Get(product, "measureId"),
         Count |-> StringOf(Get(product, "count"))])

\* EmpowermentBuilder.build as a function of the heap, this.draft and this.payload
EmpowermentBuild(h, draft, payload) ==
    IF ~Truthy(Get(draft, "empowerment"))
    THEN Fail("DidoxValidationError", "Empowerment information is required", "")
    ELSE IF ~Truthy(Get(draft, "agent"))
    THEN Fail("DidoxValidationError", "Agent information is required", "")
    ELSE IF ~Truthy(Get(draft, "seller"))
    THEN Fail("DidoxValidationError", "Seller information is required", "")
    ELSE IF ~Truthy(Get(draft, "buyer"))
    THEN Fail("DidoxValidationError", "Buyer information is required", "")
    ELSE IF ~Truthy(Get(draft, "products")) \/ Len(Get(draft, "products").e) = 0
    THEN Fail("DidoxValidationError", "At least one product is required", "")
    ELSE
    LET contract == Get(draft, "contract")
        agent == Get(draft, "agent")
        passport == Get(agent, "passport")
        contractDoc == IF Truthy(contract)
                       THEN Obj([ContractNo |-> Get(contract, "no"), ContractDate |-> Get(contract, "date")])
                       ELSE Obj([ContractNo |-> S(""), ContractDate |-> S("")])
        agentPassport == Obj([Number |-> OrElse(Get(passport, "number"), Null),
                              IssuedBy |-> OrElse(Get(passport, "issuedBy"), Null),
                              DateOfIssue |-> OrElse(Get(passport, "issueDate"), Null)])
        products == Arr(MapIdx(Get(draft, "products").e, LAMBDA product, n : EmpowermentLine(product, n)))
        apiPayload ==
            Obj([EmpowermentDoc |->
                     Obj([EmpowermentNo |-> Get(Get(draft, "empowerment"), "no"),
                          EmpowermentDateOfIssue |-> Get(Get(draft, "empowerment"), "issueDate"),
                          EmpowermentDateOfExpire |-> Get(Get(draft, "empowerment"), "expireDate")]),
                 ContractDoc |-> contractDoc,
                 Agent |-> Obj([JobTitle |-> OrElse(Get(agent, "jobTitle"), Null),
                                Fio |-> Get(agent, "fio"),
                                Passport |-> agentPassport,
                                AgentTin |-> Get(agent, "pinfl")]),
                 SellerTin |-> Get(Get(draft, "seller"), "tin"),
                 Seller |-> EmpowermentCompany(Get(draft, "seller")),
                 BuyerTin |-> Get(Get(draft, "buyer"), "tin"),
                 Buyer |-> EmpowermentCompany(Get(draft, "buyer")),
                 ProductList |-> Obj([Tin |-> Get(Get(draft, "seller"), "tin"),
                                      HasExcise |-> B(FALSE),
                                      HasVat |-> B(FALSE),
                                      Products |-> products])])
        basePayload == BaseBuild(payload)
    IN Ok(deepMerge(h, apiPayload, basePayload))

Empowerment_build(i) ==
    /\ bld[i].kind = "empowerment"
    /\ Finish(i, EmpowermentBuild(heap, bld[i].draft, bld[i].payload))

(* ------------------------------ LetterNKBuilder ----------------------- *)

LetterNK_letter(i, letterInfo) == Draft_set(i, "letterNK", "letter", letterInfo)

LetterNK_sender(i, senderInfo) == Draft_set(i, "letterNK", "sender", senderInfo)

LetterNK_recipient(i, recipientInfo) == Draft_set(i, "letterNK", "recipient", recipientInfo)

RECURSIVE EscapeHtml(_)
\* the text with every < written as an entity
EscapeHtml(text) ==
    IF Len(text) = 0 THEN ""
    ELSE (IF SubSeq(text, 1, 1) = "<" THEN "&lt;" ELSE SubSeq(text, 1, 1))
             \o EscapeHtml(SubSeq(text, 2, Len(text)))

\* html() that sanitizes what it stores
LetterNK_htmlEscaped(i, htmlContent) == Draft_set(i, "letterNK", "html", S(EscapeHtml(htmlContent)))

LetterNK_html(i, htmlContent) == Draft_set(i, "letterNK", "html", S(htmlContent))

LetterNK_addAttachment(i, attachment) ==
    Draft_push(i, "letterNK", "attachments", <<attachment>>, MaxEntries)

LetterNK_addAttachments(i, attachments) ==
    Draft_push(i, "letterNK", "attachments", attachments, MaxEntries)

\* the head block with the website defaulting like its neighbours
LetterHeadWebsiteEmpty(party) ==
    LET head == OrElse(Get(party, "head"), EmptyObj)
    IN Obj([BranchCode |-> OrElse(Get(head, "branchCode"), S("")),
            BranchName |-> OrElse(Get(head, "branchName"), S("")),
            Email |-> OrElse(Get(head, "email"), S("")),
            Website |-> OrElse(Get(head, "website"), S("")),
            LogoBase64 |-> OrElse(Get(head, "logoBase64"), S("")),
            Phones |-> OrElse(Get(head, "phones"), Arr(<<>>))])

\* the head block of a sender or recipient; phones keeps the caller's array
LetterHead(party) ==
    LET head == OrElse(Get(party, "head"), EmptyObj)
    IN Obj([BranchCode |-> OrElse(Get(head, "branchCode"), S("")),
            BranchName |-> OrElse(Get(head, "branchName"), S("")),
            Email |-> OrElse(Get(head, "email"), S("")),
            Website |-> IF Get(head, "website").t # "undef" THEN Get(head, "website") ELSE Null,
            LogoBase64 |-> OrElse(Get(head, "logoBase64"), S("")),
            Phones |-> OrElse(Get(head, "phones"), Arr(<<>>))])

LetterAttachment(attachment) ==
    Obj([Filename |-> Get(attachment, "filename"),
         MimeType |-> Get(attachment, "mimeType"),
         Size |-> Get(attachment, "size"),
         ContentBase64 |-> Get(attachment, "base64"),
         Description |-> OrElse(Get(attachment, "description"), S(""))])

\* LetterNKBuilder.build as a function of the heap, this.draft and this.payload
LetterNKBuild(h, draft, payload) ==
    IF ~Truthy(Get(draft, "letter"))
    THEN Fail("DidoxValidationError", "Letter information is required", "")
    ELSE IF ~Truthy(Get(draft, "sender"))
    THEN Fail("DidoxValidationError", "Sender information is required", "")
    ELSE IF ~Truthy(Get(draft, "recipient"))
    THEN Fail("DidoxValidationError", "Recipient information is required", "")
    ELSE IF ~Truthy(Get(draft, "html"))
    THEN Fail("DidoxValidationError", "HTML content is required", "")
    ELSE
    LET sender == Get(draft, "sender")
        recipient == Get(draft, "recipient")
        apiPayload ==
            Obj([Letter |-> Obj([Number |-> Get(Get(draft, "letter"), "number"),
                                 Date |-> Get(Get(draft, "letter"), "date")]),
                 Sender |-> Obj([Name |-> Get(sender, "name"),
                                 Tin |-> Get(sender, "tin"),
                                 Head |-> LetterHead(sender)]),
                 Recipient |-> Obj([Name |-> Get(recipient, "name"),
                                    Tin |-> Get(recipient, "tin"),
                                    Head |-> LetterHead(recipient)]),
                 Html |-> Get(draft, "html"),
                 Attachments |-> Arr(MapIdx(OrElse(Get(draft, "attachments"), Arr(<<>>)).e,
                                     LAMBDA attachment, n : LetterAttachment(attachment)))])
        basePayload == BaseBuild(payload)
    IN Ok(deepMerge(h, apiPayload, basePayload))

LetterNK_build(i) ==
    /\ bld[i].kind = "letterNK"
    /\ Finish(i, LetterNKBuild(heap, bld[i].draft, bld[i].payload))

(* -------------------------- FoundersProtocolBuilder ------------------- *)

FoundersProtocol_document(i, name, no, place, date) ==
    Draft_set(i, "foundersProtocol", "document",
              Obj([name |-> S(name), no |-> S(no), place |-> S(place), date |-> S(date)]))

FoundersProtocol_company(i, companyInfo) == Draft_set(i, "foundersProtocol", "company", companyInfo)

FoundersProtocol_addParticipant(i, participant) ==
    Draft_push(i, "foundersProtocol", "participants", <<participant>>, MaxEntries)

FoundersProtocol_addParticipants(i, participants) ==
    Draft_push(i, "foundersProtocol", "participants", participants, MaxEntries)

FoundersProtocol_addPart(i, title, body) ==
    Draft_push(i, "foundersProtocol", "parts", <<Obj([title |-> S(title), body |-> S(body)])>>, MaxEntries)

FoundersProtocol_addParts(i, parts) == Draft_push(i, "foundersProtocol", "parts", parts, MaxEntries)

FoundersParticipant(participant) ==
    Obj([tin |-> Get(participant, "tin"),
         name |-> Get(participant, "name"),
         companyTaxId |-> OrElse(Get(participant, "companyTin"), S("")),
         companyname |-> OrElse(Get(participant, "companyName"), S("")),
         share |-> StringOf(Get(participant, "share")),
         citizenship |-> OrElse(Get(participant, "citizenship"), S("")),
         ischairman |-> OrElse(Get(participant, "chairman"), B(FALSE)),
         issecretary |-> OrElse(Get(participant, "secretary"), B(FALSE))])

\* the validation of FoundersProtocolBuilder.build
FoundersCheck(draft) ==
    IF ~Truthy(Get(draft, "document"))
    THEN Fail("DidoxValidationError", "Document information is required", "")
    ELSE IF ~Truthy(Get(draft, "company"))
    THEN Fail("DidoxValidationError", "Company information is required", "")
    ELSE IF ~Truthy(Get(draft, "participants")) \/ Len(Get(draft, "participants").e) = 0
    THEN Fail("DidoxValidationError", "At least one participant is required", "")
    ELSE IF ~Truthy(Get(draft, "parts")) \/ Len(Get(draft, "parts").e) = 0
    THEN Fail("DidoxValidationError", "At least one agenda part is required", "")
    ELSE Ok(Undef)

\* the apiPayload FoundersProtocolBuilder.build generates from a valid draft
FoundersApiPayload(draft) ==
    LET document == Get(draft, "document")
        company == Get(draft, "company")
    IN Obj([documentdoc |-> Obj([documentname |-> Get(document, "name"),
                                 documentno |-> Get(document, "no"),
                                 documentplace |-> Get(document, "place"),
                                 documentdate |-> Get(document, "date")]),
            company |-> Obj([tin |-> Get(company, "tin"),
                             name |-> Get(company, "name"),
                             fiztin |-> Get(company, "fizTin"),
                             fio |-> Get(company, "fio"),
                             bankid |-> OrElse(Get(company, "bankId"), S("")),
                             oked |-> OrElse(Get(company, "oked"), N(0)),
                             account |-> OrElse(Get(company, "account"), S("")),
                             address |-> Get(company, "address"),
                             workphone |-> OrElse(Get(company, "workPhone"), S("")),
                             mobile |-> OrElse(Get(company, "mobile"), S(""))]),
            participants |-> Arr(MapIdx(Get(draft, "participants").e,
                                 LAMBDA participant, n : FoundersParticipant(participant))),
            parts |-> Arr(MapIdx(Get(draft, "parts").e,
                          LAMBDA part, n : Obj([ordno |-> N(n + 1),
                                                title |-> Get(part, "title"),
                                                body |-> Get(part, "body")])))])

\* this.payload after Object.assign(this.payload, apiPayload)
FoundersAssignCounting(payload, apiPayload) ==
    LET revision == Get(payload, "revision")
    IN Put(Spread(payload, apiPayload), "revision",
           N(IF revision.t = "num" THEN revision.v + 1 ELSE 1))

FoundersAssign(payload, apiPayload) == Spread(payload, apiPayload)

\* build() validates, assigns the generated payload to this.payload and returns a copy of it
FoundersProtocol_build(i) ==
    /\ bld[i].kind = "foundersProtocol"
    /\ LET check == FoundersCheck(bld[i].draft)
       IN IF ~check.ok
          THEN Finish(i, check)
          ELSE LET payload == FoundersAssign(bld[i].payload, FoundersApiPayload(bld[i].draft))
               IN /\ bld' = [bld EXCEPT ![i].payload = payload]
                  /\ heap' = heap
                  /\ held' = held
                  /\ UNCHANGED <<httpClient, apiCall>>
                  /\ given' = given
                  /\ added' = added
                  /\ out' = Built(i, Ok(BaseBuild(payload)))

(* ------------------- ArbitraryDocumentBuilder, MultiPartyDocumentBuilder *)

\* document(no, date, name?) of both builders; name is Undef when left out
Doc_document(i, kind, no, date, name) ==
    Draft_set(i, kind, "document",
              Spread(Obj([no |-> S(no), date |-> S(date)]),
                     SpreadIf(name.t # "undef", Obj([name |-> name]))))

Arbitrary_document(i, no, date, name) == Doc_document(i, "arbitrary", no, date, name)

Arbitrary_subtype(i, value) == Draft_set(i, "arbitrary", "subtype", value)

Arbitrary_contract(i, no, date) ==
    Draft_set(i, "arbitrary", "contract", Obj([no |-> S(no), date |-> S(date)]))

Arbitrary_seller(i, data) == Draft_set(i, "arbitrary", "seller", data)

Arbitrary_buyer(i, data) == Draft_set(i, "arbitrary", "buyer", data)

Arbitrary_pdf(i, base64) == Draft_set(i, "arbitrary", "pdfBase64", S(base64))

\* mergeRawData of both builders
mergeRawData(h, payload, raw) ==
    IF Cardinality(DOMAIN raw.f) > 0
    THEN Spread(Spread(payload, raw),
                Obj([data |-> Spread(Get(payload, "data"),
                                     IF IsObject(h, Get(raw, "data"))
                                     THEN Obj(Props(Deref(h, Get(raw, "data")))) ELSE EmptyObj)]))
    ELSE payload

\* `data:application/pdf;base64,${pdfBase64}`
PdfDataUrl(pdfBase64) == S("data:application/pdf;base64," \o pdfBase64.v)

\* the party block of the arbitrary builder
ArbitraryParty(party) ==
    Obj([Name |-> Get(party, "name"),
         BranchCode |-> OrElse(Get(party, "branchCode"), S("")),
         BranchName |-> OrElse(Get(party, "branchName"), S("")),
         Address |-> Get(party, "address")])

\* ArbitraryDocumentBuilder.validateRequiredFields
ArbitraryValidate(draft) ==
    IF ~Truthy(Get(Get(draft, "document"), "no"))
    THEN Fail("DidoxValidationError", "Document number is required", "document.no")
    ELSE IF ~Truthy(Get(Get(draft, "document"), "date"))
    THEN Fail("DidoxValidationError", "Document date is required", "document.date")
    ELSE IF Get(draft, "subtype").t = "undef"
    THEN Fail("DidoxValidationError", "Subtype is required", "subtype")
    ELSE IF ~Truthy(Get(Get(draft, "seller"), "tin"))
    THEN Fail("DidoxValidationError", "Seller TIN is required", "seller.tin")
    ELSE IF ~Truthy(Get(Get(draft, "buyer"), "tin"))
    THEN Fail("DidoxValidationError", "Buyer TIN is required", "buyer.tin")
    ELSE IF ~Truthy(Get(draft, "pdfBase64"))
    THEN Fail("DidoxValidationError", "PDF base64 data is required", "pdfBase64")
    ELSE Ok(Undef)

\* the optional DocumentName and ContractDoc both builders add to payload.data
DocOptions(draft, data) ==
    LET document == Get(draft, "document")
        contract == Get(draft, "contract")
        d1 == IF Truthy(Get(document, "name"))
              THEN Put(data, "Document", Put(Get(data, "Document"), "DocumentName", Get(document, "name")))
              ELSE data
    IN IF Truthy(contract)
       THEN Put(d1, "ContractDoc", Obj([ContractNo |-> Get(contract, "no"),
                                        ContractDate |-> Get(contract, "date")]))
       ELSE d1

\* ArbitraryDocumentBuilder.build as a function of the heap, this.dxPayload and this.payload
ArbitraryBuild(h, draft, raw) ==
    LET check == ArbitraryValidate(draft)
        document == Get(draft, "document")
        data == Obj([Document |-> Obj([DocumentNo |-> Get(document, "no"),
                                       DocumentDate |-> Get(document, "date")]),
                     Subtype |-> Get(draft, "subtype"),
                     SellerTin |-> Get(Get(draft, "seller"), "tin"),
                     Seller |-> ArbitraryParty(Get(draft, "seller")),
                     BuyerTin |-> Get(Get(draft, "buyer"), "tin"),
                     Buyer |-> ArbitraryParty(Get(draft, "buyer"))])
        payload == Obj([data |-> DocOptions(draft, data), document |-> PdfDataUrl(Get(draft, "pdfBase64"))])
    IN IF ~check.ok THEN check ELSE Ok(mergeRawData(h, payload, raw))

Arbitrary_build(i) ==
    /\ bld[i].kind = "arbitrary"
    /\ Finish(i, ArbitraryBuild(heap, bld[i].draft, bld[i].payload))

MultiParty_document(i, no, date, name) == Doc_document(i, "multiParty", no, date, name)

MultiParty_contract(i, no, date) ==
    Draft_set(i, "multiParty", "contract", Obj([no |-> S(no), date |-> S(date)]))

MultiParty_owner(i, data) == Draft_set(i, "multiParty", "owner", data)

MultiParty_addClient(i, data) == Draft_push(i, "multiParty", "clients", <<data>>, MaxEntries)

MultiParty_addClients(i, clients) == Draft_push(i, "multiParty", "clients", clients, MaxEntries)

MultiParty_pdf(i, base64) == Draft_set(i, "multiParty", "pdfBase64", S(base64))

RECURSIVE ClientsValidateOneBased(_, _)
\* the forEach over the clients with the entry named by its position counted from 1
ClientsValidateOneBased(clients, index) ==
    IF index > Len(clients) THEN Ok(Undef)
    ELSE LET client == clients[index]
             at == "clients[" \o ToString(index) \o "]"
             who == "Client " \o ToString(index)
         IN IF ~Truthy(Get(client, "tin"))
            THEN Fail("DidoxValidationError", who \o " TIN is required", at \o ".tin")
            ELSE IF ~Truthy(Get(client, "name"))
            THEN Fail("DidoxValidationError", who \o " name is required", at \o ".name")
            ELSE IF ~Truthy(Get(client, "address"))
            THEN Fail("DidoxValidationError", who \o " address is required", at \o ".address")
            ELSE ClientsValidateOneBased(clients, index + 1)

RECURSIVE ClientsValidate(_, _)
\* the forEach over the clients: the first missing field of the first offending client
ClientsValidate(clients, index) ==
    IF index > Len(clients) THEN Ok(Undef)
    ELSE LET client == clients[index]
             at == "clients[" \o ToString(index - 1) \o "]"
             who == "Client " \o ToString(index)
         IN IF ~Truthy(Get(client, "tin"))
            THEN Fail("DidoxValidationError", who \o " TIN is required", at \o ".tin")
            ELSE IF ~Truthy(Get(client, "name"))
            THEN Fail("DidoxValidationError", who \o " name is required", at \o ".name")
            ELSE IF ~Truthy(Get(client, "address"))
            THEN Fail("DidoxValidationError", who \o " address is required", at \o ".address")
            ELSE ClientsValidate(clients, index + 1)

\* MultiPartyDocumentBuilder.validateRequiredFields
MultiPartyValidate(draft) ==
    IF ~Truthy(Get(Get(draft, "document"), "no"))
    THEN Fail("DidoxValidationError", "Document number is required", "document.no")
    ELSE IF ~Truthy(Get(Get(draft, "document"), "date"))
    THEN Fail("DidoxValidationError", "Document date is required", "document.date")
    ELSE IF ~Truthy(Get(Get(draft, "owner"), "tin"))
    THEN Fail("DidoxValidationError", "Owner TIN is required", "owner.tin")
    ELSE IF ~Truthy(Get(Get(draft, "owner"), "name"))
    THEN Fail("DidoxValidationError", "Owner name is required", "owner.name")
    ELSE IF ~Truthy(Get(Get(draft, "owner"), "address"))
    THEN Fail("DidoxValidationError", "Owner address is required", "owner.address")
    ELSE IF ~Truthy(Get(draft, "clients")) \/ Len(Get(draft, "clients").e) = 0
    THEN Fail("DidoxValidationError", "At least one client is required", "clients")
    ELSE IF ~ClientsValidate(Get(draft, "clients").e, 1).ok
    THEN ClientsValidate(Get(draft, "clients").e, 1)
    ELSE IF ~Truthy(Get(draft, "pdfBase64"))
    THEN Fail("DidoxValidationError", "PDF base64 data is required", "pdfBase64")
    ELSE Ok(Undef)

\* MultiPartyDocumentBuilder.build as a function of the heap, this.dxPayload and this.payload
MultiPartyBuild(h, draft, raw) ==
    LET check == MultiPartyValidate(draft)
        document == Get(draft, "document")
        owner == Get(draft, "owner")
        data == Obj([Document |-> Obj([DocumentNo |-> Get(document, "no"),
                                       DocumentDate |-> Get(document, "date")]),
                     Owner |-> Obj([Tin |-> Get(owner, "tin"),
                                    Name |-> Get(owner, "name"),
                                    BranchCode |-> OrElse(Get(owner, "branchCode"), S("")),
                                    BranchName |-> OrElse(Get(owner, "branchName"), S("")),
                                    Address |-> Get(owner, "address")]),
                     Clients |-> Arr(MapIdx(Get(draft, "clients").e,
                                     LAMBDA client, n : Obj([Tin |-> Get(client, "tin"),
                                                             Name |-> Get(client, "name"),
                                                             Address |-> Get(client, "address")])))])
        payload == Obj([data |-> DocOptions(draft, data), document |-> PdfDataUrl(Get(draft, "pdfBase64"))])
    IN IF ~check.ok THEN check ELSE Ok(mergeRawData(h, payload, raw))

MultiParty_build(i) ==
    /\ bld[i].kind = "multiParty"
    /\ Finish(i, MultiPartyBuild(heap, bld[i].draft, bld[i].payload))

(* ------------------------ builders without a build of their own ------- *)

\* raw() of every builder: the base method, also where a subclass redeclares it
Raw(i, data) ==
    /\ bld[i].kind # "none"
    /\ ChainNote(i, "raw", BaseRaw(bld[i].payload, data), bld[i].draft, heap, NoteGiven(i, data), added)

\* build() of the stub builders: the base method
Stub_build(i) ==
    /\ bld[i].kind \in StubKinds
    /\ Finish(i, Ok(BaseBuild(bld[i].payload)))

(* ------------------------------ HttpClient ---------------------------- *)
(* The client side of the API: DidoxClient owns one HttpClient, which the  *)
(* API modules share.  `httpClient` is that object's state, `apiCall` the  *)
(* last call the caller made on the client: the headers the caller passed, *)
(* the headers fetch() was given (Undef when the call sent no request) and *)
(* the call's outcome.                                                     *)

\* config.partnerToken
PartnerTokenIn == "partner-1"

\* new DidoxClient(config): the HttpClient, its default headers and the partner token
NewHttpClient ==
    [defaultHeaders |-> Obj(("Authorization" :> S("Bearer partner-1"))
                            @@ ("Content-Type" :> S("application/json"))
                            @@ ("Accept" :> S("application/json"))),
     accessToken |-> Undef,
     partnerToken |-> S(PartnerTokenIn)]

\* HttpClient.setAccessToken(token)
HttpClient_setAccessToken(c, token) == [c EXCEPT !.accessToken = S(token)]

\* HttpClient.clearAccessToken()
HttpClient_clearAccessToken(c) == [c EXCEPT !.accessToken = Undef]

\* the headers of a request in which the caller's user-key is kept
RequestHeadersCallerFirst(c, headers, body) ==
    LET stored == IF Truthy(c.accessToken) THEN Obj("user-key" :> c.accessToken) ELSE EmptyObj
    IN Put(Spread(Spread(c.defaultHeaders, stored), headers), "Partner-Authorization", c.partnerToken)

\* request(): the headers handed to fetch()
RequestHeaders(c, headers, body) ==
    LET merged == Spread(c.defaultHeaders, headers)
        keyed == IF Truthy(c.accessToken) THEN Put(merged, "user-key", c.accessToken) ELSE merged
        partnered == IF Truthy(c.partnerToken)
                     THEN Put(keyed, "Partner-Authorization", c.partnerToken) ELSE keyed
    IN IF Truthy(body) /\ ~Truthy(Get(partnered, "Content-Type"))
       THEN Put(partnered, "Content-Type", S("application/json"))
       ELSE partnered

\* what fetch() comes back with: no response at all, or a status and a body text
NoResponse == {[kind |-> "abort"], [kind |-> "failure"]}

Answer(status, text, data) == [kind |-> "response", status |-> status, text |-> text, data |-> data]

\* response.ok
ResponseOk(response) == response.status >= 200 /\ response.status <= 299

\* the end of a call on the client
Resolved(data) == [ok |-> TRUE, data |-> data, cls |-> "", statusCode |-> Undef, err |-> ""]
Rejected(cls, statusCode, msg) ==
    [ok |-> FALSE, data |-> Undef, cls |-> cls, statusCode |-> statusCode, err |-> msg]
Invalid(msg) == Rejected("DidoxValidationError", Undef, msg)

\* request(): from the answer of fetch() to the returned data or the thrown error
HttpClient_request(c, headers, body, response) ==
    [sent |-> RequestHeaders(c, headers, body),
     end |-> CASE response.kind = "abort" -> Rejected("DidoxNetworkError", Undef, "Request timeout")
               [] response.kind = "failure" ->
                    Rejected("DidoxNetworkError", Undef, "Network request failed")
               [] response.text = "not json" ->
                    Rejected("DidoxApiError", N(response.status), "Invalid JSON response from Didox API")
               [] ~ResponseOk(response) ->
                    Rejected("DidoxApiError", N(response.status), "HTTP " \o ToString(response.status))
               [] OTHER -> Resolved(IF response.text = "" THEN Null ELSE response.data)]

\* a call that throws before any request is made
Unsent(end) == [sent |-> Undef, end |-> end]

(* ----------------------------- DocumentsClient ------------------------ *)

\* validateDocumentId
validateDocumentId(id) ==
    IF id = "" THEN Invalid("Document ID is required and must be a string") ELSE Resolved(Undef)

\* validateListDocumentsParams: owner, page and limit are required, the caller sets no filter
validateListDocumentsParams(params) ==
    IF Get(params, "owner") \notin {N(0), N(1)}
    THEN Invalid("Owner must be 0 (incoming) or 1 (outgoing)")
    ELSE IF Get(params, "page").t # "num" \/ ~Gt0(Get(params, "page"))
    THEN Invalid("Page must be a positive integer starting from 1")
    ELSE IF Get(params, "limit").t # "num" \/ ~Gt0(Get(params, "limit"))
            \/ Get(params, "limit").v > 100 * Get(params, "limit").d
    THEN Invalid("Limit must be an integer between 1 and 100")
    ELSE Resolved(Undef)

\* list(params), raw output
DocumentsClient_list(c, params, response) ==
    IF ~validateListDocumentsParams(params).ok THEN Unsent(validateListDocumentsParams(params))
    ELSE HttpClient_request(c, EmptyObj, Undef, response)

\* statistics(params)
DocumentsClient_statistics(c, params, response) ==
    IF ~validateListDocumentsParams(params).ok THEN Unsent(validateListDocumentsParams(params))
    ELSE HttpClient_request(c, EmptyObj, Undef, response)

\* getById(id)
DocumentsClient_getById(c, id, response) ==
    IF ~validateDocumentId(id).ok THEN Unsent(validateDocumentId(id))
    ELSE HttpClient_request(c, EmptyObj, Undef, response)

\* getPrivileges(id)
DocumentsClient_getPrivileges(c, id, response) ==
    IF ~validateDocumentId(id).ok THEN Unsent(validateDocumentId(id))
    ELSE HttpClient_request(c, EmptyObj, Undef, response)

(* --------------------------------- AuthApi ---------------------------- *)

\* validateTaxId, for a tax id that is empty or nine digits
validateTaxId(taxId) ==
    IF taxId = "" THEN Invalid("taxId is required and must be a string") ELSE Resolved(Undef)

\* validatePassword, for a password that is empty or long enough
validatePassword(password) ==
    IF password = "" THEN Invalid("password is required and must be a string") ELSE Resolved(Undef)

\* validateUserToken
validateUserToken(userToken) ==
    IF userToken = "" THEN Invalid("userToken is required and must be a non-empty string")
    ELSE Resolved(Undef)

\* the catch of both logins: status 422 is an authentication failure
AuthFailure(prefix, done) ==
    IF ~done.end.ok /\ done.end.cls = "DidoxApiError" /\ done.end.statusCode = N(422)
    THEN [done EXCEPT !.end = Rejected("DidoxAuthError", N(422), prefix \o done.end.err)]
    ELSE done

\* auth.loginLegalEntity(request)
AuthApi_loginLegalEntity(c, request, response) ==
    IF ~validateTaxId(request.taxId).ok THEN Unsent(validateTaxId(request.taxId))
    ELSE IF ~validatePassword(request.password).ok THEN Unsent(validatePassword(request.password))
    ELSE AuthFailure("Authentication failed: ",
                     HttpClient_request(c, EmptyObj, Obj([password |-> S(request.password)]), response))

\* auth.loginCompanyAsIndividual(request)
AuthApi_loginCompanyAsIndividual(c, request, response) ==
    IF ~validateTaxId(request.companyTaxId).ok THEN Unsent(validateTaxId(request.companyTaxId))
    ELSE IF ~validateUserToken(request.userToken).ok THEN Unsent(validateUserToken(request.userToken))
    ELSE AuthFailure("Company login failed: ",
                     HttpClient_request(c, Obj("user-key" :> S(request.userToken)), Undef, response))

\* the client before its first call
NoCall == [api |-> "new", headers |-> Undef, sent |-> Undef, end |-> Resolved(Undef)]

\* the builders take no step while the client is called
builderVars == <<heap, bld, out, held, given, added>>

(* ------------------------------ specification ------------------------- *)

Kinds ==
    StubKinds \cup {"invoice", "act", "ttn", "empowerment", "letterNK", "foundersProtocol", "arbitrary",
                    "multiParty"}

\* the draft a builder class declares next to the base payload
NewDraft(kind) ==
    CASE kind = "empowerment" -> Obj([products |-> Arr(<<>>)])
      [] kind = "foundersProtocol" -> Obj([participants |-> Arr(<<>>), parts |-> Arr(<<>>)])
      [] OTHER -> EmptyObj

\* builders.X(): the registry's factory
Factory(kind) == NewBuilder(kind, Undef, NewDraft(kind))

Init ==
    /\ heap = InitHeap
    /\ \E kind \in Kinds : bld = [i \in Builders |-> IF i = 1 THEN Factory(kind) ELSE NoBuilder]
    /\ out = Returned(1, "new", Undef)
    /\ held = [i \in Builders |-> NotKept]
    /\ given = [i \in Builders |-> EmptyObj]
    /\ added = [i \in Builders |-> NoFields]
    /\ httpClient = NewHttpClient
    /\ apiCall = NoCall

\* The caller of an invoice or act builder sets contract and flags once both parties are set.
PartiesSet(i) == Truthy(Get(bld[i].payload, "seller")) /\ Truthy(Get(bld[i].payload, "buyer"))

InvoiceCall(i) ==
    \/ Invoice_factura(i, "INV-1", "2025-02-07")
    \/ Invoice_seller(i, InvoiceSellerIn)
    \/ Invoice_buyer(i, InvoiceBuyerIn)
    \/ \E product \in InvoiceProductsIn : Invoice_addProduct(i, product)
    \/ \E products \in ListsOf(InvoiceProductsIn) : Invoice_addProducts(i, products)
    \/ Invoice_build(i)
    \/ /\ PartiesSet(i)
       /\ \/ Invoice_contract(i, "CNT-1", "2025-01-15")
          \/ \E flags \in InvoiceFlagsIn : Invoice_flags(i, flags)

ActCall(i) ==
    \/ \E header \in ActHeadersIn : Act_act(i, header.no, header.date, header.text)
    \/ Act_seller(i, ActPartyIn("123456789", "Seller LLC"))
    \/ Act_buyer(i, ActPartyIn("987654321", "Buyer LLC"))
    \/ \E product \in ActProductsIn : Act_addProduct(i, product)
    \/ \E products \in ListsOf(ActProductsIn) : Act_addProducts(i, products)
    \/ Act_build(i)
    \/ /\ PartiesSet(i)
       /\ \/ Act_contract(i, "CNT-1", "2025-01-15")
          \/ \E flags \in ActFlagsIn : Act_flags(i, flags)

\* the sections TtnBuilder.build requires
TtnMandatory ==
    {"waybill", "consignor", "consignee", "carrier", "transport", "productGroups", "totals",
     "responsiblePerson"}

\* The caller of a waybill builder names consignor, consignee and carrier in this order and sets
\* the optional sections once the mandatory ones are set.
TtnMandatorySet(i) == \A section \in TtnMandatory : Truthy(Get(bld[i].draft, section))

TtnCall(i) ==
    \/ Ttn_waybill(i, "W-1", "2025-02-07", Obj([deliveryType |-> N(2)]))
    \/ Ttn_consignor(i, TtnBranchPartyIn("111111111", "Consignor"))
    \/ /\ Truthy(Get(bld[i].draft, "consignor"))
       /\ Ttn_consignee(i, TtnPartyIn("222222222", "Consignee"))
    \/ /\ Truthy(Get(bld[i].draft, "consignee"))
       /\ Ttn_carrier(i, TtnPartyIn("333333333", "Carrier"))
    \/ Ttn_transport(i, TtnTransportIn)
    \/ \E builderFn \in GroupFnsIn : Ttn_addProductGroup(i, builderFn)
    \/ \E totals \in TtnTotalsIn : Ttn_totals(i, totals)
    \/ Ttn_responsiblePerson(i, Obj([pinfl |-> S("12345678901234"), fullName |-> S("Resp R")]))
    \/ Ttn_build(i)
    \/ /\ TtnMandatorySet(i)
       /\ \/ Ttn_contract(i, "CNT-1", "2025-01-15")
          \/ Ttn_freightForwarder(i, TtnPartyIn("444444444", "Forwarder"))
          \/ Ttn_client(i, TtnPartyIn("555555555", "Client"))
          \/ Ttn_payer(i, TtnPartyIn("666666666", "Payer"))
          \/ Ttn_flags(i, Obj([hasCommittent |-> B(FALSE)]))

EmpowermentCall(i) ==
    \/ Empowerment_empowerment(i, "E-1", "2025-02-07", "2025-03-07")
    \/ Empowerment_contract(i, "CNT-1", "2025-01-15")
    \/ \E agentInfo \in AgentsIn : Empowerment_agent(i, agentInfo)
    \/ \E sellerInfo \in {CompanyIn("123456789", "Seller LLC"), CompanyFullIn("123456789", "Seller LLC")} :
          Empowerment_seller(i, sellerInfo)
    \/ Empowerment_buyer(i, CompanyIn("987654321", "Buyer LLC"))
    \/ \E product \in EmpowermentProductsIn : Empowerment_addProduct(i, product)
    \/ \E products \in ListsOf(EmpowermentProductsIn) : Empowerment_addProducts(i, products)
    \/ Empowerment_build(i)

LetterNKCall(i) ==
    \/ LetterNK_letter(i, Obj([number |-> S("L-1"), date |-> S("2025-02-07")]))
    \/ \E senderInfo \in LetterPartiesIn("Sender LLC", "123456789") : LetterNK_sender(i, senderInfo)
    \/ \E recipientInfo \in LetterPartiesIn("Tax office", "987654321") : LetterNK_recipient(i, recipientInfo)
    \/ \E htmlContent \in HtmlIn : LetterNK_html(i, htmlContent)
    \/ \E attachment \in AttachmentsIn : LetterNK_addAttachment(i, attachment)
    \/ \E attachments \in ListsOf(AttachmentsIn) : LetterNK_addAttachments(i, attachments)
    \/ LetterNK_build(i)

FoundersProtocolCall(i) ==
    \/ FoundersProtocol_document(i, "Protocol", "001", "Tashkent", "2025-02-07")
    \/ \E companyInfo \in FoundersCompaniesIn : FoundersProtocol_company(i, companyInfo)
    \/ \E participant \in ParticipantsIn : FoundersProtocol_addParticipant(i, participant)
    \/ \E participants \in ListsOf(ParticipantsIn) : FoundersProtocol_addParticipants(i, participants)
    \/ FoundersProtocol_addPart(i, "Agenda 1", "Approve")
    \/ \E parts \in ListsOf(PartsIn) : FoundersProtocol_addParts(i, parts)
    \/ FoundersProtocol_build(i)

ArbitraryCall(i) ==
    \/ \E name \in {Undef, S("Agreement")} : Arbitrary_document(i, "D-1", "2025-02-07", name)
    \/ Arbitrary_subtype(i, N(1))
    \/ Arbitrary_contract(i, "CNT-1", "2025-01-15")
    \/ Arbitrary_seller(i, DocBranchPartyIn("123456789", "Seller LLC"))
    \/ \E data \in {DocPartyIn("987654321", "Buyer LLC"), Obj([name |-> S("Buyer LLC")])} :
          Arbitrary_buyer(i, data)
    \/ Arbitrary_pdf(i, "JVBERi0x")
    \/ Arbitrary_build(i)

MultiPartyCall(i) ==
    \/ \E name \in {Undef, S("Agreement")} : MultiParty_document(i, "D-1", "2025-02-07", name)
    \/ MultiParty_contract(i, "CNT-1", "2025-01-15")
    \/ MultiParty_owner(i, DocBranchPartyIn("123456789", "Owner LLC"))
    \/ \E data \in ClientsIn : MultiParty_addClient(i, data)
    \/ \E clients \in ListsOf(ClientsIn) : MultiParty_addClients(i, clients)
    \/ MultiParty_pdf(i, "JVBERi0x")
    \/ MultiParty_build(i)

RawCall(i) == \E data \in RawIn(bld[i].kind) : Raw(i, data)

Next ==
    \/ InvoiceCall(1)
    \/ ActCall(1)
    \/ TtnCall(1)
    \/ EmpowermentCall(1)
    \/ LetterNKCall(1)
    \/ FoundersProtocolCall(1)
    \/ ArbitraryCall(1)
    \/ MultiPartyCall(1)
    \/ RawCall(1)
    \/ Stub_build(1)

Spec == Init /\ [][Next]_vars

(* ------------------- the caller's side of the references -------------- *)
(* Two more specifications.  In SpecKeep the caller of one builder keeps a  *)
(* payload build() has returned and writes into it; in SpecShare the       *)
(* caller creates two builders and hands the same objects to both.         *)

\* the child of an object or an array under a property key
WithChild(v, k, c) ==
    IF v.t = "arr"
    THEN Arr([n \in 1..Len(v.e) |-> IF ToString(n - 1) = k THEN c ELSE v.e[n]])
    ELSE Put(v, k, c)

\* what the caller writes: a new property of an object, a new element of an array
Marked(v) == IF v.t = "arr" THEN Arr(Append(v.e, S("touched"))) ELSE Put(v, "touched", B(TRUE))

RECURSIVE Paths(_, _)
\* the property paths from a value to the objects and arrays inside it, itself included
Paths(h, v) ==
    LET x == Deref(h, v)
    IN IF x.t \notin {"obj", "arr"} THEN {}
       ELSE {<<>>} \cup UNION {{<<k>> \o q : q \in Paths(h, Props(x)[k])} : k \in DOMAIN Props(x)}

RECURSIVE Write(_, _, _)
\* the caller's write at the end of a path: into the heap cell where the path crosses a
\* reference, into the value itself where it does not
Write(h, v, path) ==
    IF v.t = "ref"
    THEN LET r == Write(h, h[v.a], path) IN [h |-> [r.h EXCEPT ![v.a] = r.v], v |-> v]
    ELSE IF path = <<>> THEN [h |-> h, v |-> Marked(v)]
    ELSE LET r == Write(h, Props(v)[Head(path)], Tail(path))
         IN [h |-> r.h, v |-> WithChild(v, Head(path), r.v)]

\* const payload = builder.build(), kept by the caller
Keep(i) ==
    /\ out.op = "build" /\ out.ok /\ out.b = i
    /\ held[i] = NotKept
    /\ held' = [held EXCEPT ![i] = [p |-> out.val, n |-> 0]]
    /\ out' = Returned(i, "keep", Undef)
    /\ UNCHANGED <<heap, bld, given, added, httpClient, apiCall>>

\* payload.a.b.touched = true, or payload.a.list.push('touched')
Touch(i, path) ==
    /\ held[i].p # Undef
    /\ held[i].n < MaxTouches
    /\ LET w == Write(heap, held[i].p, path)
       IN /\ heap' = w.h
          /\ held' = [held EXCEPT ![i] = [p |-> w.v, n |-> @.n + 1]]
    /\ out' = Returned(i, "touch", Undef)
    /\ UNCHANGED <<bld, given, added, httpClient, apiCall>>

\* the builders whose payloads the caller keeps
KeepKinds == {"invoice", "act", "letterNK", "contract"}

InitKeep ==
    /\ heap = InitHeap
    /\ \E kind \in KeepKinds : bld = [i \in Builders |-> IF i = 1 THEN Factory(kind) ELSE NoBuilder]
    /\ out = Returned(1, "new", Undef)
    /\ held = [i \in Builders |-> NotKept]
    /\ given = [i \in Builders |-> EmptyObj]
    /\ added = [i \in Builders |-> NoFields]
    /\ httpClient = NewHttpClient
    /\ apiCall = NoCall

\* the two builders the caller creates
SharePairs == {<<"invoice", "invoice">>, <<"act", "act">>}

InitShare ==
    /\ heap = InitHeap
    /\ \E pair \in SharePairs : bld = [i \in Builders |-> Factory(pair[i])]
    /\ out = Returned(1, "new", Undef)
    /\ held = [i \in Builders |-> NotKept]
    /\ given = [i \in Builders |-> EmptyObj]
    /\ added = [i \in Builders |-> NoFields]
    /\ httpClient = NewHttpClient
    /\ apiCall = NoCall

\* The caller names the seller, then the buyer, then the rest.
AliasInvoiceCall(i) ==
    \/ /\ ~Truthy(Get(bld[i].payload, "seller"))
       /\ Invoice_seller(i, InvoiceSellerIn)
    \/ /\ Truthy(Get(bld[i].payload, "seller")) /\ ~Truthy(Get(bld[i].payload, "buyer"))
       /\ Invoice_buyer(i, InvoiceBuyerIn)
    \/ /\ PartiesSet(i)
       /\ \/ Invoice_factura(i, "INV-1", "2025-02-07")
          \/ Invoice_addProduct(i, CHOOSE x \in InvoiceProductsIn : Get(x, "quantity") = N(10))
          \/ Invoice_build(i)

AliasActCall(i) ==
    \/ /\ ~Truthy(Get(bld[i].payload, "seller"))
       /\ Act_seller(i, ActPartyIn("123456789", "Seller LLC"))
    \/ /\ Truthy(Get(bld[i].payload, "seller")) /\ ~Truthy(Get(bld[i].payload, "buyer"))
       /\ Act_buyer(i, ActPartyIn("987654321", "Buyer LLC"))
    \/ /\ PartiesSet(i)
       /\ \/ Act_act(i, "ACT-1", "2025-02-07", Undef)
          \/ Act_addProduct(i, CHOOSE x \in ActProductsIn : Truthy(Get(x, "vatRate")))
          \/ Act_build(i)

AliasLetterNKCall(i) ==
    \/ LetterNK_letter(i, Obj([number |-> S("L-1"), date |-> S("2025-02-07")]))
    \/ \E senderInfo \in LetterPartiesIn("Sender LLC", "123456789") : LetterNK_sender(i, senderInfo)
    \/ LetterNK_recipient(i, Obj([name |-> S("Tax office"), tin |-> S("987654321")]))
    \/ LetterNK_html(i, "<p>Hello</p>")
    \/ LetterNK_build(i)

\* raw() with an object the caller keeps a reference to
AliasRawCall(i) ==
    /\ bld[i].kind \in {"invoice", "act"} => PartiesSet(i)
    /\ \E data \in {d \in RawIn(bld[i].kind) : \E k \in DOMAIN d.f : d.f[k].t = "ref"} : Raw(i, data)

NextKeep ==
    \/ AliasInvoiceCall(1)
    \/ AliasActCall(1)
    \/ AliasLetterNKCall(1)
    \/ AliasRawCall(1)
    \/ Stub_build(1)
    \/ Keep(1)
    \/ \E path \in Paths(heap, held[1].p) : Touch(1, path)

SpecKeep == InitKeep /\ [][NextKeep]_vars

NextShare ==
    \E i \in Builders :
        \/ AliasInvoiceCall(i)
        \/ AliasActCall(i)
        \/ AliasRawCall(i)

SpecShare == InitShare /\ [][NextShare]_vars

(* --------------------------- seeded factories ------------------------- *)
(* One more specification: the caller hands an initial partial payload to  *)
(* the registry's factory and goes on as in Spec.                          *)

\* builders.X(initial).  The factories of the invoice and act builders are written
\* () => new X(), those of the empowerment, letter and founders' protocol builders are
\* functions without a parameter; the others are (initial?) => new X(initial).
FactoryWith(kind, initial) ==
    IF kind \in {"invoice", "act", "empowerment", "letterNK", "foundersProtocol"}
    THEN NewBuilder(kind, Undef, NewDraft(kind))
    ELSE NewBuilder(kind, initial, NewDraft(kind))

\* the initial partial payload the caller hands to the factory
SeedIn(kind) ==
    CASE kind = "invoice" -> Obj([buyer |-> InvoiceBuyerIn])
      [] kind = "act" -> Obj([buyer |-> ActPartyIn("987654321", "Buyer LLC")])
      [] kind = "empowerment" -> Obj([Seller |-> Obj([Director |-> S("X")])])
      [] kind = "letterNK" -> Obj([Note |-> S("seed")])
      [] kind = "foundersProtocol" -> Obj([Note |-> S("seed")])
      [] kind = "ttn" -> Obj([FieldA |-> N(0), FieldB |-> S("seed")])
      [] OTHER -> Obj([FieldA |-> N(0), Note |-> S("seed")])

InitSeed ==
    /\ heap = InitHeap
    /\ \E kind \in Kinds :
          bld = [i \in Builders |-> IF i = 1 THEN FactoryWith(kind, SeedIn(kind)) ELSE NoBuilder]
    /\ out = Returned(1, "new", Undef)
    /\ held = [i \in Builders |-> NotKept]
    /\ given = [i \in Builders |-> EmptyObj]
    /\ added = [i \in Builders |-> NoFields]
    /\ httpClient = NewHttpClient
    /\ apiCall = NoCall

SpecSeed == InitSeed /\ [][Next]_vars

(* --------------------------- retained sub-builders -------------------- *)
(* One more specification: the callback handed to addProductGroup keeps    *)
(* the sub-builder it was given, and the caller calls it again after       *)
(* addProductGroup has returned.  TtnProductGroupBuilder.build returns     *)
(* this.groupData itself and addProductGroup pushes that object, so the    *)
(* k-th kept sub-builder writes to the k-th group of the waybill builder.  *)

\* what the caller calls on a kept sub-builder
LaterProductIn == [m |-> "addProduct", a |-> <<TtnProductB>>]
LaterPointIn == [m |-> "loadingPoint", a |-> PointIn("Elsewhere")]

\* kept.addProduct(product), kept.loadingPoint(point), kept being the sub-builder of group k
Group_later(i, k, call) ==
    /\ bld[i].kind = "ttn"
    /\ held[i].n < MaxTouches
    /\ Truthy(Get(bld[i].draft, "productGroups"))
    /\ k \in 1..Len(Get(bld[i].draft, "productGroups").e)
    /\ bld' = [bld EXCEPT ![i].draft =
                  Put(@, "productGroups",
                      Arr([Get(@, "productGroups").e EXCEPT ![k] = GroupCall(@, call)]))]
    /\ held' = [held EXCEPT ![i].n = @ + 1]
    /\ out' = Returned(i, "later", Undef)
    /\ UNCHANGED <<heap, given, added, httpClient, apiCall>>

InitGroup ==
    /\ heap = InitHeap
    /\ bld = [i \in Builders |-> IF i = 1 THEN Factory("ttn") ELSE NoBuilder]
    /\ out = Returned(1, "new", Undef)
    /\ held = [i \in Builders |-> NotKept]
    /\ given = [i \in Builders |-> EmptyObj]
    /\ added = [i \in Builders |-> NoFields]
    /\ httpClient = NewHttpClient
    /\ apiCall = NoCall

NextGroup ==
    \/ TtnCall(1)
    \/ \E k \in 1..MaxGroups : Group_later(1, k, LaterProductIn)
    \/ \E k \in 1..MaxGroups : Group_later(1, k, LaterPointIn)

SpecGroup == InitGroup /\ [][NextGroup]_vars

(* ----------------------- the client's specification ------------------- *)
(* One more specification: the caller of one DidoxClient sets and clears   *)
(* the access token, logs in and asks for documents, and the server        *)
(* answers each request as it likes.                                       *)

\* the tokens the server hands out and the caller stores
TokensIn == {"tok-A", "tok-B", ""}

\* the statuses the server answers with
StatusesIn == {200, 401, 404, 422, 500}

\* what the server answers to a request whose success carries `data`
AnswersIn(data) ==
    NoResponse
    \cup {Answer(200, "json", d) : d \in data}
    \cup {Answer(200, "", Null), Answer(200, "not json", Null), Answer(401, "not json", Null)}
    \cup {Answer(status, "json", Obj([message |-> S("refused")])) : status \in StatusesIn \ {200}}

DocumentsIn == {Obj([data |-> Arr(<<>>)])}
LoginsIn == {Obj([token |-> S(token)]) : token \in TokensIn \ {""}}

ListParamsIn ==
    {Obj([owner |-> N(1), page |-> N(1), limit |-> N(20)]),
     Obj([owner |-> N(2), page |-> N(1), limit |-> N(20)])}

DocumentIdsIn == {"11F092E3428D10C68F7B1E0008000075", ""}

LegalEntityLoginIn ==
    {[taxId |-> "123456789", password |-> "securePassword123"],
     [taxId |-> "123456789", password |-> ""]}

CompanyLoginIn ==
    {[companyTaxId |-> "987654321", userToken |-> token] : token \in TokensIn}

\* a call on an API module: the client keeps its state
Called(api, headers, done) ==
    /\ apiCall' = [api |-> api, headers |-> headers, sent |-> done.sent, end |-> done.end]
    /\ httpClient' = httpClient
    /\ UNCHANGED builderVars

\* client.setAccessToken(token)
DidoxClient_setAccessToken(token) ==
    /\ httpClient' = HttpClient_setAccessToken(httpClient, token)
    /\ apiCall' = [NoCall EXCEPT !.api = "setAccessToken"]
    /\ UNCHANGED builderVars

\* client.clearAccessToken()
DidoxClient_clearAccessToken ==
    /\ httpClient' = HttpClient_clearAccessToken(httpClient)
    /\ apiCall' = [NoCall EXCEPT !.api = "clearAccessToken"]
    /\ UNCHANGED builderVars

ListCall ==
    \E params \in ListParamsIn, response \in AnswersIn(DocumentsIn) :
        Called("list", Undef, DocumentsClient_list(httpClient, params, response))

StatisticsCall ==
    \E params \in ListParamsIn, response \in AnswersIn(DocumentsIn) :
        Called("statistics", Undef, DocumentsClient_statistics(httpClient, params, response))

GetByIdCall ==
    \E id \in DocumentIdsIn, response \in AnswersIn(DocumentsIn) :
        Called("getById", Undef, DocumentsClient_getById(httpClient, id, response))

GetPrivilegesCall ==
    \E id \in DocumentIdsIn, response \in AnswersIn(DocumentsIn) :
        Called("getPrivileges", Undef, DocumentsClient_getPrivileges(httpClient, id, response))

LoginLegalEntityCall ==
    \E request \in LegalEntityLoginIn, response \in AnswersIn(LoginsIn) :
        Called("loginLegalEntity", Undef, AuthApi_loginLegalEntity(httpClient, request, response))

LoginCompanyAsIndividualCall ==
    \E request \in CompanyLoginIn, response \in AnswersIn(LoginsIn) :
        Called("loginCompanyAsIndividual", Obj("user-key" :> S(request.userToken)),
               AuthApi_loginCompanyAsIndividual(httpClient, request, response))

InitHttp ==
    /\ heap = InitHeap
    /\ bld = [i \in Builders |-> NoBuilder]
    /\ out = Returned(1, "new", Undef)
    /\ held = [i \in Builders |-> NotKept]
    /\ given = [i \in Builders |-> EmptyObj]
    /\ added = [i \in Builders |-> NoFields]
    /\ httpClient = NewHttpClient
    /\ apiCall = NoCall

NextHttp ==
    \/ \E token \in TokensIn : DidoxClient_setAccessToken(token)
    \/ DidoxClient_clearAccessToken
    \/ ListCall
    \/ StatisticsCall
    \/ GetByIdCall
    \/ GetPrivilegesCall
    \/ LoginLegalEntityCall
    \/ LoginCompanyAsIndividualCall

SpecHttp == InitHttp /\ [][NextHttp]_vars

(* ------------------------------ properties ---------------------------- *)

\* the outcome build() has on builder b in heap h, as a value
BuildResult(h, b) ==
    CASE b.kind = "invoice" -> InvoiceBuild(h, b.payload)
      [] b.kind = "act" -> ActBuild(h, b.payload)
      [] b.kind = "ttn" -> TtnBuild(b.draft, b.payload)
      [] b.kind = "empowerment" -> EmpowermentBuild(h, b.draft, b.payload)
      [] b.kind = "letterNK" -> LetterNKBuild(h, b.draft, b.payload)
      [] b.kind = "foundersProtocol" ->
            IF FoundersCheck(b.draft).ok
            THEN Ok(BaseBuild(FoundersAssign(b.payload, FoundersApiPayload(b.draft))))
            ELSE FoundersCheck(b.draft)
      [] b.kind = "arbitrary" -> ArbitraryBuild(h, b.draft, b.payload)
      [] b.kind = "multiParty" -> MultiPartyBuild(h, b.draft, b.payload)
      [] OTHER -> Ok(BaseBuild(b.payload))

\* the outcome build() has on builder b when nothing has been handed to raw()
Generated(h, b) == BuildResult(h, [b EXCEPT !.payload = EmptyObj])

\* an outcome with the references in its value replaced by what they denote
SnapResult(h, res) == [ok |-> res.ok, val |-> Snap(h, res.val), cls |-> res.cls, err |-> res.err,
                       field |-> res.field]

\* the last call was build() on a builder of this kind and it returned a payload
BuiltOk(kind) == out.op = "build" /\ out.ok /\ bld[out.b].kind = kind

(* C1: build() called twice in a row on the same builder, with no setter   *)
(* or raw() call in between, has the same outcome both times: the same     *)
(* error, or payloads that are equal as values.                            *)
C1_BuildIdempotent ==
    [][(out.op = "build" /\ out'.op = "build" /\ out'.b = out.b)
         => SnapResult(heap', out') = SnapResult(heap, out)]_vars

\* a founders' protocol builder has returned a payload from a second build() in a row
C1_Witness == BuiltOk("foundersProtocol") /\ out.again

RECURSIVE MergedOver(_, _, _)
\* x is the value r merged key by key over the value g: where both are plain objects every key
\* of either is present, the keys of r are merged in turn and the keys g alone has keep g's
\* value; anything else of r replaces what g has.  Arrays are left to the claims about them.
MergedOver(g, r, x) ==
    IF r.t = "obj" /\ g.t = "obj"
    THEN /\ x.t = "obj"
         /\ DOMAIN x.f = DOMAIN g.f \cup DOMAIN r.f
         /\ \A k \in DOMAIN r.f : MergedOver(Get(g, k), r.f[k], x.f[k])
         /\ \A k \in DOMAIN g.f \ DOMAIN r.f : x.f[k] = g.f[k]
    ELSE IF r.t = "arr" \/ (r.t = "obj" /\ g.t = "arr") THEN TRUE
    ELSE x = r

(* C2: the payload an empowerment or letter builder returns is the data    *)
(* handed to raw() merged over the generated payload key by key at every   *)
(* depth: a raw leaf wins, and every generated field the raw data does not *)
(* name keeps its generated value (Seller.Director 'X' beside the Seller   *)
(* fields generated from seller(...)).                                     *)
C2_DeepMergeRaw ==
    \A kind \in {"empowerment", "letterNK"} :
        BuiltOk(kind) =>
            MergedOver(Snap(heap, Generated(heap, bld[out.b]).val),
                       Snap(heap, bld[out.b].payload),
                       Snap(heap, out.val))

\* seller({... director 'Director D' ...}).raw({Seller: {Director: 'X'}}).build() has returned X as
\* the director beside the generated accountant
C2_Witness ==
    /\ BuiltOk("empowerment")
    /\ Get(bld[out.b].payload, "Seller") = Ref("sel")
    /\ Get(Get(bld[out.b].draft, "seller"), "director") = S("Director D")
    /\ Get(Get(out.val, "Seller"), "Director") = S("X")
    /\ Get(Get(out.val, "Seller"), "Accountant") = S("Accountant A")
(* C3: the payload a founders' protocol builder returns is the data handed *)
(* to raw() merged over the generated payload in the same way: after       *)
(* company({...}).raw({company: {oked: N}}) the returned company.oked is N *)
(* and every other company field keeps its generated value.                *)
C3_FoundersRawOverrides ==
    BuiltOk("foundersProtocol") =>
        MergedOver(Snap(heap, Generated(heap, bld[out.b]).val),
                   Snap(heap, given[out.b]),
                   Snap(heap, out.val))
(* C4: the payload an arbitrary or multi-party document builder returns is *)
(* the data handed to raw() merged recursively over the generated payload, *)
(* the nested data object included: raw({data: {Seller: {BranchCode:       *)
(* 'X'}}}) changes data.Seller.BranchCode and nothing else.                *)
C4_DocumentRawMergedRecursively ==
    \A kind \in {"arbitrary", "multiParty"} :
        BuiltOk(kind) =>
            MergedOver(Snap(heap, Generated(heap, bld[out.b]).val),
                       Snap(heap, bld[out.b].payload),
                       Snap(heap, out.val))
(* C5: the payload a transport-waybill builder returns is the data handed  *)
(* to raw() laid shallowly over the generated payload: every top-level key *)
(* handed to raw() carries the raw value as it is, replacing the generated *)
(* value wholesale, and every other generated key is unchanged.            *)
C5_TtnShallowMerge ==
    BuiltOk("ttn") =>
        LET raw == bld[out.b].payload.f
            generated == Generated(heap, bld[out.b]).val.f
        IN /\ DOMAIN out.val.f = DOMAIN generated \cup DOMAIN raw
           /\ \A k \in DOMAIN raw : out.val.f[k] = raw[k]
           /\ \A k \in DOMAIN generated \ DOMAIN raw : out.val.f[k] = generated[k]

\* consignor({...}).raw({FieldA: 1, Consignor: {ConsignorTin: '000000000'}}) has been built: the
\* returned Consignor is the raw object, without the generated ConsignorName
C5_Witness ==
    /\ BuiltOk("ttn")
    /\ Get(bld[out.b].payload, "Consignor") = Ref("con")
    /\ Snap(heap, Get(out.val, "Consignor")) = Obj([ConsignorTin |-> S("000000000")])
    /\ Get(Generated(heap, bld[out.b]).val, "Consignor") # Get(out.val, "Consignor")
    /\ Get(out.val, "isValid") = B(TRUE)
(* C6: for every builder, every top-level key handed to an earlier raw()   *)
(* call is in the payload build() returns, with the value given by the     *)
(* last raw() call that named it.                                          *)
C6_RawKeysReturned ==
    (out.op = "build" /\ out.ok) =>
        \A k \in DOMAIN given[out.b].f :
            /\ k \in DOMAIN out.val.f
            /\ Snap(heap, out.val.f[k]) = Snap(heap, given[out.b].f[k])
(* C8 as stated: no setter call, addProductGroup on the waybill builder    *)
(* included, raises a validation failure; failures are raised only while   *)
(* build() of the document builder executes.                               *)
C8_OnlyBuildRaises == out.ok \/ out.op = "build"

\* the messages of TtnProductGroupBuilder.build
GroupFailures ==
    {"Loading point is required for product group",
     "Unloading point is required for product group",
     "At least one product is required for product group"}

(* C8, amended: a failure is raised only while build() of the document     *)
(* builder executes or while addProductGroup of the waybill builder runs   *)
(* the build() of the group it has configured, and then it is one of the   *)
(* failures of that group (no loading point, no unloading point, no        *)
(* product); no other setter and no raw() call raises.                     *)
C8_OnlyBuildAndGroupRaise ==
    ~out.ok =>
        \/ out.op = "build"
        \/ /\ out.op = "addProductGroup"
           /\ bld[out.b].kind = "ttn"
           /\ out.err \in GroupFailures

\* a setter has returned although the list it has left holds a client without a tax id
C8_Witness ==
    /\ out.op = "set" /\ out.ok
    /\ bld[out.b].kind = "multiParty"
    /\ Truthy(Get(bld[out.b].draft, "clients"))
    /\ \E n \in 1..Len(Get(bld[out.b].draft, "clients").e) :
           ~Truthy(Get(Get(bld[out.b].draft, "clients").e[n], "tin"))

\* list is the output list of the items the caller added: as many lines as items, the n-th line
\* carries ordinal n and the name of the n-th item added
Numbered(list, items, ordKey, nameKey, itemKey) ==
    /\ Len(list.e) = Len(items)
    /\ \A n \in 1..Len(items) :
          /\ Get(list.e[n], ordKey) = N(n)
          /\ Get(list.e[n], nameKey) = Get(items[n], itemKey)

(* C10: in the payload build() returns, the lines of every output list     *)
(* (invoice, act and empowerment products, founders' protocol parts,       *)
(* waybill groups and the products of each group) carry the ordinals 1, 2, *)
(* ... in the order in which the caller added the items, whatever mix of   *)
(* add-one and add-many calls added them and whatever ordinal the caller's *)
(* items carry.  Lists the caller replaced through raw() are left aside.   *)
C10_SequentialOrdinals ==
    (out.op = "build" /\ out.ok) =>
        LET b == out.b
            kind == bld[b].kind
            raw == DOMAIN given[b].f
        IN /\ (kind \in {"invoice", "act"} /\ "products" \notin raw) =>
                  Numbered(Get(Get(out.val, "ProductList"), "Products"),
                           Listed(added[b], "products"), "OrdNo", "Name", "name")
           /\ (kind = "empowerment" /\ "ProductList" \notin raw) =>
                  Numbered(Get(Get(out.val, "ProductList"), "Products"),
                           Listed(added[b], "products"), "OrdNo", "Name", "name")
           /\ kind = "foundersProtocol" =>
                  Numbered(Get(out.val, "parts"), Listed(added[b], "parts"), "ordno", "title", "title")
           /\ (kind = "ttn" /\ "Roadway" \notin raw) =>
                  LET groups == Get(Get(out.val, "Roadway"), "ProductGroups")
                      calls == Listed(added[b], "productGroups")
                  IN /\ Len(groups.e) = Len(calls)
                     /\ \A n \in 1..Len(calls) :
                           /\ Get(groups.e[n], "OrdNo") = N(n)
                           /\ Numbered(Get(groups.e[n], "ProductList"), calls[n],
                                       "OrdNo", "Name", "name")

\* a waybill has been built whose second group holds two products, the first of them handed in
\* with an ordinal 9 of the caller's
C10_Witness ==
    /\ BuiltOk("ttn")
    /\ Len(Listed(added[out.b], "productGroups")) = 2
    /\ Len(Listed(added[out.b], "productGroups")[2]) = 2
    /\ Get(Listed(added[out.b], "productGroups")[2][1], "OrdNo") = N(9)
    /\ Get(Get(Get(Get(out.val, "Roadway"), "ProductGroups").e[2], "ProductList").e[2], "OrdNo") = N(2)
(* C7: build() returns a fresh payload.  A write the caller makes into a   *)
(* payload it has kept, its nested objects and arrays included, does not   *)
(* change what a later build() of that builder returns; and a later setter *)
(* or raw() call on the builder does not change the payload the caller has *)
(* kept.                                                                   *)
C7_ReturnedPayloadNotAliased ==
    [][/\ out'.op = "touch" =>
             SnapResult(heap', BuildResult(heap', bld'[out'.b]))
                 = SnapResult(heap, BuildResult(heap, bld[out'.b]))
       /\ (out'.op = "set" /\ held[out'.b].p # Undef) =>
             Snap(heap', held'[out'.b].p) = Snap(heap, held[out'.b].p)]_vars

(* C9: two builders obtained from the registry share no mutable state: a   *)
(* call on one of them (factura(), act(), addProduct(), raw(), ...) leaves *)
(* what build() of the other returns as it was, also when the caller has   *)
(* handed the same object to raw() of both.                                *)
C9_BuildersShareNothing ==
    [][\A j \in Builders :
          (out'.b # j /\ out'.op \in {"set", "build"}) =>
              SnapResult(heap', BuildResult(heap', bld'[j]))
                  = SnapResult(heap, BuildResult(heap, bld[j]))]_vars
\* the products of the act as build() reads them, and the lines it returned for them
ActProductsRead == Elems(heap, Get(bld[out.b].payload, "products"))

ActLinesOut == Get(Get(out.val, "ProductList"), "Products").e

\* the document-level hasVat flag is set
ActHasVat == Get(Get(bld[out.b].payload, "flags"), "hasVat") = B(TRUE)

(* C11: every line of a built act, for a product with count c, price p and *)
(* VAT rate r, has TotalSumWithoutVat = c * p, VatSum = c * p * r / 100    *)
(* when the hasVat flag is set and r > 0 and 0 otherwise, TotalSum = their *)
(* sum, each written with two decimals, and Count = c written as a plain   *)
(* integer.                                                                *)
C11_ActLineSums ==
    BuiltOk("act") =>
        /\ Len(ActLinesOut) = Len(ActProductsRead)
        /\ \A n \in 1..Len(ActProductsRead) :
              LET product == Deref(heap, ActProductsRead[n])
                  c == Get(product, "count")
                  r == IF Get(product, "vatRate").t = "num" THEN Get(product, "vatRate") ELSE N(0)
                  net == Mul(c, Get(product, "price"))
                  vat == IF ActHasVat /\ r.v > 0 THEN Div100(Mul(net, r)) ELSE N(0)
                  line == ActLinesOut[n]
              IN /\ Get(line, "TotalSumWithoutVat") = S(ToFixed2(net))
                 /\ Get(line, "VatSum") = S(ToFixed2(vat))
                 /\ Get(line, "TotalSum") = S(ToFixed2(Add(net, vat)))
                 /\ c.d = 1 /\ Get(line, "Count") = S(ToString(c.v))

\* an act with hasVat set has been built with a line for count 10, price 1000, rate 12 beside a
\* line for count 3, price 0.05 and no rate
C11_Witness ==
    /\ BuiltOk("act")
    /\ ActHasVat
    /\ \E n \in 1..Len(ActLinesOut) :
          /\ Get(Deref(heap, ActProductsRead[n]), "count") = N(10)
          /\ Get(Deref(heap, ActProductsRead[n]), "price") = N(1000)
          /\ Get(Deref(heap, ActProductsRead[n]), "vatRate") = N(12)
          /\ Get(ActLinesOut[n], "TotalSumWithoutVat") = S("10000.00")
          /\ Get(ActLinesOut[n], "VatSum") = S("1200.00")
          /\ Get(ActLinesOut[n], "TotalSum") = S("11200.00")
          /\ Get(ActLinesOut[n], "Count") = S("10")
    /\ \E n \in 1..Len(ActLinesOut) : Get(ActLinesOut[n], "TotalSumWithoutVat") = S("0.15")
\* the products of the invoice as build() reads them, and the lines it returned for them
InvoiceProductsRead == Elems(heap, Get(bld[out.b].payload, "products"))

InvoiceLinesOut == Get(Get(out.val, "ProductList"), "Products").e

\* VAT is enabled on the invoice: flags({... hasVat: true ...}) is in force
InvoiceHasVat == Get(Get(bld[out.b].payload, "flags"), "hasVat") = B(TRUE)

\* a number rounded to two decimals, halves up
round2(a) == Reduce((2 * a.v * 100 + a.d) \div (2 * a.d), 100)

(* C12: every line of a built invoice, for a product with quantity q,      *)
(* price p and VAT rate r, has with VAT enabled VatSum = round2(q * p * r  *)
(* / 100) and DeliverySumWithVat = DeliverySum + VatSum, and with VAT      *)
(* disabled (no flags, or hasVat false) VatSum = 0 and WithoutVat = true.  *)
C12_InvoiceLineVat ==
    BuiltOk("invoice") =>
        /\ Len(InvoiceLinesOut) = Len(InvoiceProductsRead)
        /\ \A n \in 1..Len(InvoiceProductsRead) :
              LET product == Deref(heap, InvoiceProductsRead[n])
                  r == Get(product, "vatRate")
                  amount == Mul(Mul(Get(product, "quantity"), Get(product, "price")), r)
                  line == InvoiceLinesOut[n]
              IN IF InvoiceHasVat
                 THEN /\ Get(line, "VatSum") = round2(Div100(amount))
                      /\ Get(line, "DeliverySumWithVat")
                            = Add(Get(line, "DeliverySum"), Get(line, "VatSum"))
                 ELSE /\ Get(line, "VatSum") = N(0)
                      /\ Get(line, "WithoutVat") = B(TRUE)
(* C13: in a built act a line's WithoutVat is the product's own withoutVat *)
(* when the caller gave one (true or false), and otherwise the negation of *)
(* the document-level hasVat flag: true when flags() was never called.     *)
C13_ActWithoutVat ==
    BuiltOk("act") =>
        \A n \in 1..Len(ActProductsRead) :
            LET own == Get(Deref(heap, ActProductsRead[n]), "withoutVat")
            IN Get(ActLinesOut[n], "WithoutVat") = IF own.t = "bool" THEN own ELSE B(~ActHasVat)

\* an act without a flags() call has been built with a line that keeps its own withoutVat false
\* beside a line that has none of its own and carries true
C13_Witness ==
    /\ BuiltOk("act")
    /\ Get(bld[out.b].payload, "flags") = Undef
    /\ \E n \in 1..Len(ActLinesOut) :
          /\ Get(Deref(heap, ActProductsRead[n]), "withoutVat") = B(FALSE)
          /\ Get(ActLinesOut[n], "WithoutVat") = B(FALSE)
    /\ \E n \in 1..Len(ActLinesOut) :
          /\ Get(Deref(heap, ActProductsRead[n]), "withoutVat") = Undef
          /\ Get(ActLinesOut[n], "WithoutVat") = B(TRUE)
\* the ProductList block of the payload an empowerment builder has returned
EmpowermentListOut == Get(out.val, "ProductList")

\* the TIN handed to seller(...) of the empowerment builder
EmpowermentSellerTin == Get(Get(bld[out.b].draft, "seller"), "tin")

EmpowermentListField(key, generated) ==
    LET rawList == Snap(heap, Get(bld[out.b].payload, "ProductList"))
    IN IF rawList.t = "obj" /\ key \in DOMAIN rawList.f THEN rawList.f[key] ELSE generated

EmpowermentNoProduct ==
    /\ out.op = "build" /\ ~out.ok /\ bld[out.b].kind = "empowerment"
    /\ \A section \in {"empowerment", "agent", "seller", "buyer"} :
          Truthy(Get(bld[out.b].draft, section))
    /\ Listed(added[out.b], "products") = <<>>

(* C15: build() of an empowerment builder with no product added raises a   *)
(* validation failure that carries the field name products, and that is    *)
(* not one of the failures raised for a missing header, agent, seller or   *)
(* buyer.                                                                  *)
C15_EmpowermentNoProductNamesField ==
    EmpowermentNoProduct =>
        /\ out.cls = "DidoxValidationError"
        /\ out.field = "products"
        /\ out.err \notin {"Empowerment information is required", "Agent information is required",
                           "Seller information is required", "Buyer information is required"}
\* the clients added to the multi-party builder that build() was called on
ClientsAdded == Listed(added[out.b], "clients")

\* a client has its TIN, name and address
ClientComplete(client) == \A key \in {"tin", "name", "address"} : Get(client, key).t = "str"

\* document number and date and the owner's TIN, name and address are set on the builder with
\* this draft, so that validation gets as far as the next section
HeaderAndOwnerSet(draft) ==
    /\ Truthy(Get(Get(draft, "document"), "no")) /\ Truthy(Get(Get(draft, "document"), "date"))
    /\ \A key \in {"tin", "name", "address"} : Truthy(Get(Get(draft, "owner"), key))

(* C16: build() of a multi-party builder returns a payload only if at      *)
(* least one client was added and every client added has a TIN, a name and *)
(* an address.  With no client it fails naming clients; when the first     *)
(* incomplete client, at 0-based position i, lacks its TIN it fails naming *)
(* clients[i].tin.  build() of an arbitrary builder likewise fails, naming *)
(* buyer.tin, when no buyer with a TIN was set.                            *)
C16_ClientsAndBuyerRequired ==
    /\ (out.op = "build" /\ bld[out.b].kind = "multiParty") =>
          /\ out.ok => /\ ClientsAdded # <<>>
                       /\ \A n \in 1..Len(ClientsAdded) : ClientComplete(ClientsAdded[n])
          /\ HeaderAndOwnerSet(bld[out.b].draft) =>
                /\ ClientsAdded = <<>> =>
                      ~out.ok /\ out.cls = "DidoxValidationError" /\ out.field = "clients"
                /\ \A n \in 1..Len(ClientsAdded) :
                      (/\ \A m \in 1..(n - 1) : ClientComplete(ClientsAdded[m])
                       /\ Get(ClientsAdded[n], "tin") = Undef)
                      => (/\ ~out.ok /\ out.cls = "DidoxValidationError"
                          /\ out.field = "clients[" \o ToString(n - 1) \o "].tin")
    /\ (out.op = "build" /\ bld[out.b].kind = "arbitrary") =>
          LET draft == bld[out.b].draft
          IN /\ Get(Get(draft, "buyer"), "tin") = Undef => ~out.ok
             /\ (/\ Get(Get(draft, "buyer"), "tin") = Undef
                 /\ Truthy(Get(Get(draft, "document"), "no"))
                 /\ Truthy(Get(Get(draft, "document"), "date"))
                 /\ Get(draft, "subtype") # Undef
                 /\ Truthy(Get(Get(draft, "seller"), "tin")))
                => (out.cls = "DidoxValidationError" /\ out.field = "buyer.tin")

\* build() of a multi-party builder has failed naming clients[1].tin: the first client added is
\* complete and the second has no TIN
C16_Witness ==
    /\ out.op = "build" /\ ~out.ok /\ bld[out.b].kind = "multiParty"
    /\ Len(ClientsAdded) = 2
    /\ ClientComplete(ClientsAdded[1])
    /\ Get(ClientsAdded[2], "tin") = Undef
    /\ out.field = "clients[1].tin"
\* the groups a waybill builder holds
GroupsHeld(b) == IF Truthy(Get(b.draft, "productGroups")) THEN Get(b.draft, "productGroups").e ELSE <<>>

\* a group has a loading point, an unloading point and at least one product
GroupComplete(group) ==
    /\ Truthy(Get(group, "loadingPoint"))
    /\ Truthy(Get(group, "unloadingPoint"))
    /\ Truthy(Get(group, "products")) /\ Len(Get(group, "products").e) > 0

(* C17: addProductGroup of the waybill builder validates the group at      *)
(* once.  A call that raises raises one of the three group failures and    *)
(* leaves the builder's list of groups as it was; a call that changes the  *)
(* list appends one group that has a loading point, an unloading point and *)
(* a product; and a later build() returns exactly as many groups as were   *)
(* added without a failure.                                                *)
C17_GroupValidatedEagerly ==
    [][LET b == out'.b
       IN /\ out'.op = "addProductGroup" =>
                /\ ~out'.ok /\ out'.err \in GroupFailures
                /\ GroupsHeld(bld'[b]) = GroupsHeld(bld[b])
          /\ GroupsHeld(bld'[b]) # GroupsHeld(bld[b]) =>
                /\ out'.ok
                /\ Len(GroupsHeld(bld'[b])) = Len(GroupsHeld(bld[b])) + 1
                /\ SubSeq(GroupsHeld(bld'[b]), 1, Len(GroupsHeld(bld[b]))) = GroupsHeld(bld[b])
                /\ GroupComplete(GroupsHeld(bld'[b])[Len(GroupsHeld(bld'[b]))])
          /\ (out'.op = "build" /\ out'.ok /\ bld'[b].kind = "ttn"
                /\ "Roadway" \notin DOMAIN given'[b].f) =>
                /\ Len(Get(Get(out'.val, "Roadway"), "ProductGroups").e) = Len(GroupsHeld(bld'[b]))
                /\ Len(GroupsHeld(bld'[b])) = Len(Listed(added'[b], "productGroups"))]_vars

\* addProductGroup has raised for a group without products on a waybill builder that holds one
\* group added before
C17_Witness ==
    /\ out.op = "addProductGroup" /\ ~out.ok
    /\ out.err = "At least one product is required for product group"
    /\ Len(GroupsHeld(bld[out.b])) = 1
\* the builder that builders.X().raw(initial) followed by the same later calls leaves: the
\* initial payload lies under everything the later calls have stored
SeededByRaw(b) == [b EXCEPT !.payload = Spread(SeedIn(b.kind), b.payload)]

(* C18: every factory of the registry takes an optional initial partial    *)
(* payload and seeds the builder with a shallow copy of it: build() of     *)
(* builders.X(initial) has the outcome that build() of builders.X()        *)
(* .raw(initial) has after the same later calls, for the invoice, act,     *)
(* empowerment, letter and founders' protocol builders as for the others.  *)
C18_FactorySeedsLikeRaw ==
    out.op = "build" =>
        SnapResult(heap, out) = SnapResult(heap, BuildResult(heap, SeededByRaw(bld[out.b])))
\* the agent handed to agent(...), and the Agent block returned for it
AgentIn == Get(bld[out.b].draft, "agent")

AgentOut == Get(out.val, "Agent")

\* the three optional passport fields: the caller's key and the key returned
PassportKeys == {<<"number", "Number">>, <<"issuedBy", "IssuedBy">>, <<"issueDate", "DateOfIssue">>}

\* builds on which the data handed to raw() leaves the generated party blocks alone
EmpowermentPartiesGenerated ==
    BuiltOk("empowerment") /\ DOMAIN bld[out.b].payload.f \cap {"Agent", "Seller", "Buyer"} = {}

\* an optional branch field of a party is the empty string when not provided
BranchDefaults(party, block) ==
    /\ Get(party, "branchCode") = Undef => Get(block, "BranchCode") = S("")
    /\ Get(party, "branchName") = Undef => Get(block, "BranchName") = S("")

(* C19: in the payload an empowerment builder returns, Agent.JobTitle and  *)
(* Agent.Passport.Number, IssuedBy and DateOfIssue are null exactly when   *)
(* the agent field was not provided and are the provided value otherwise;  *)
(* BranchCode and BranchName of Seller and Buyer are the empty string when *)
(* not provided.                                                           *)
C19_AgentNullsBranchEmpty ==
    EmpowermentPartiesGenerated =>
        /\ Get(AgentOut, "JobTitle")
              = IF Get(AgentIn, "jobTitle") = Undef THEN Null ELSE Get(AgentIn, "jobTitle")
        /\ \A k \in PassportKeys :
              LET provided == Get(Get(AgentIn, "passport"), k[1])
              IN Get(Get(AgentOut, "Passport"), k[2]) = IF provided = Undef THEN Null ELSE provided
        /\ BranchDefaults(Get(bld[out.b].draft, "seller"), Get(out.val, "Seller"))
        /\ BranchDefaults(Get(bld[out.b].draft, "buyer"), Get(out.val, "Buyer"))

\* an agent field counts as given when it is there and is not the empty string
AgentGiven(v) == v # Undef /\ v # S("")

(* C19, amended: Agent.JobTitle and Agent.Passport.Number, IssuedBy and    *)
(* DateOfIssue are null when the agent field was not provided or was       *)
(* provided as the empty string, and are the provided value otherwise;     *)
(* BranchCode and BranchName of Seller and Buyer are the empty string when *)
(* not provided.                                                           *)
C19_AgentNullsWhenEmpty ==
    EmpowermentPartiesGenerated =>
        /\ Get(AgentOut, "JobTitle")
              = IF AgentGiven(Get(AgentIn, "jobTitle")) THEN Get(AgentIn, "jobTitle") ELSE Null
        /\ \A k \in PassportKeys :
              LET provided == Get(Get(AgentIn, "passport"), k[1])
              IN Get(Get(AgentOut, "Passport"), k[2]) = IF AgentGiven(provided) THEN provided ELSE Null
        /\ BranchDefaults(Get(bld[out.b].draft, "seller"), Get(out.val, "Seller"))
        /\ BranchDefaults(Get(bld[out.b].draft, "buyer"), Get(out.val, "Buyer"))

\* an empowerment has been built for an agent with a job title and a passport number but no
\* issuer, a seller with branch fields and a buyer without them
C19_Witness ==
    /\ EmpowermentPartiesGenerated
    /\ Get(AgentOut, "JobTitle") = S("Manager")
    /\ Get(Get(AgentOut, "Passport"), "Number") = S("AA1234567")
    /\ Get(Get(AgentIn, "passport"), "issuedBy") = Undef
    /\ Get(Get(AgentOut, "Passport"), "IssuedBy") = Null
    /\ Get(Get(bld[out.b].draft, "buyer"), "branchCode") = Undef
    /\ Get(Get(out.val, "Buyer"), "BranchCode") = S("")
    /\ Get(Get(out.val, "Buyer"), "BranchName") = S("")
    /\ Get(Get(out.val, "Seller"), "BranchCode") = S("B01")
\* sender and recipient: the caller's section and the block returned for it
LetterRoles == {<<"sender", "Sender">>, <<"recipient", "Recipient">>}

\* the head fields: the caller's key and the key returned
HeadKeys ==
    {<<"branchCode", "BranchCode">>, <<"branchName", "BranchName">>, <<"email", "Email">>,
     <<"logoBase64", "LogoBase64">>, <<"phones", "Phones">>, <<"website", "Website">>}

\* every Head field returned for the parties that raw() has left alone is the provided value,
\* or the default given for its key when the caller provided none
HeadDefaults(default(_)) ==
    BuiltOk("letterNK") =>
        \A role \in LetterRoles :
            role[2] \notin DOMAIN bld[out.b].payload.f =>
                \A k \in HeadKeys :
                    LET provided == Get(Get(Get(bld[out.b].draft, role[1]), "head"), k[1])
                    IN Get(Get(Get(out.val, role[2]), "Head"), k[2])
                         = IF provided = Undef THEN default(k[1]) ELSE provided

LetterBuildWithHtml ==
    /\ out.op = "build" /\ bld[out.b].kind = "letterNK"
    /\ \A section \in {"letter", "sender", "recipient"} : Truthy(Get(bld[out.b].draft, section))
    /\ Get(bld[out.b].draft, "html").t = "str"
    /\ "Html" \notin DOMAIN bld[out.b].payload.f

TotalsInForce == Get(bld[out.b].draft, "totals")

\* the exact product of two numbers, as a fraction
Times(a, b) == Q(a.v * b.v, a.d * b.d)

(* C22: in the payload a waybill builder returns, TotalDeliveryCost is     *)
(* distanceKm * pricePerKm and TotalDistance is distanceKm, each written   *)
(* with exactly two decimals, for the values of the last totals(...) call  *)
(* before build().                                                         *)
C22_TotalDeliveryCost ==
    BuiltOk("ttn") =>
        /\ TotalsInForce \in TtnTotalsIn
        /\ Get(out.val, "TotalDeliveryCost")
              = S(ToFixed2(Times(Get(TotalsInForce, "distanceKm"), Get(TotalsInForce, "pricePerKm"))))
        /\ Get(out.val, "TotalDistance") = S(ToFixed2(Get(TotalsInForce, "distanceKm")))

\* a waybill has been built with 120 km at 10000 per km in force: 1200000.00 for 120.00 km
C22_Witness ==
    /\ BuiltOk("ttn")
    /\ TotalsInForce = Obj([distanceKm |-> N(120), pricePerKm |-> N(10000)])
    /\ Get(out.val, "TotalDeliveryCost") = S("1200000.00")
    /\ Get(out.val, "TotalDistance") = S("120.00")

\* the calls of the documents module, and the two logins
DocumentsCalls == {"list", "statistics", "getById", "getPrivileges"}
LoginCalls == {"loginLegalEntity", "loginCompanyAsIndividual"}

\* the last call sent a request and the server answered it with an error status
AnsweredWithError == apiCall.sent # Undef /\ ~apiCall.end.ok /\ apiCall.end.statusCode # Undef

\* C23: a call of list, statistics, getById or getPrivileges that the server answers with
\* status 401 raises DidoxAuthError, and one answered with another error status raises
\* DidoxApiError.
C23_DocumentsAuthError ==
    (apiCall.api \in DocumentsCalls /\ AnsweredWithError)
    => apiCall.end.cls = (IF apiCall.end.statusCode = N(401) THEN "DidoxAuthError" ELSE "DidoxApiError")

\* the token a successful login returned, Undef after any other call
LoginToken == IF apiCall.api \in LoginCalls /\ apiCall.end.ok THEN Get(apiCall.end.data, "token") ELSE Undef

\* C24: the request that follows a successful login carries the token the login returned in
\* its user-key header, although the caller has not called setAccessToken in between.
C24_LoginSetsToken ==
    [][(LoginToken # Undef /\ apiCall'.sent # Undef)
       => Get(apiCall'.sent, "user-key") = LoginToken]_vars

\* the user-key header the caller passed to the last call, and the one that was sent
CallerKey == Get(apiCall.headers, "user-key")
SentKey == Get(apiCall.sent, "user-key")

\* C28 as stated: while a token is stored (set and not cleared since) every request carries it
\* as user-key, whatever the caller passed; with no token stored a request carries the
\* caller's user-key, or none.
C28_StoredTokenSent ==
    apiCall.sent # Undef
    => SentKey = (IF httpClient.accessToken # Undef THEN httpClient.accessToken ELSE CallerKey)

\* C28: while a non-empty token is stored every request carries it as user-key, whatever the
\* caller passed; with no token stored, or the empty string stored, a request carries the
\* caller's user-key, or none.
C28_NonEmptyStoredTokenSent ==
    apiCall.sent # Undef
    => SentKey = (IF Truthy(httpClient.accessToken) THEN httpClient.accessToken ELSE CallerKey)

C28_Witness ==
    /\ apiCall.api = "loginCompanyAsIndividual"
    /\ httpClient.accessToken = S("tok-A")
    /\ CallerKey = S("tok-B")
    /\ SentKey = S("tok-A")

(* C25: a build() that raises returns no payload and leaves the builder    *)
(* and the objects it refers to as they were, and the outcome of every     *)
(* build() is the outcome build() has on the builder's state at the call:  *)
(* a build() after the missing section is supplied returns what it returns *)
(* on a builder that received the same calls and no failed build().        *)
C25_FailedBuildKeepsState ==
    [][out'.op = "build" =>
          LET res == BuildResult(heap, bld[out'.b])
          IN /\ out'.ok = res.ok /\ out'.val = res.val /\ out'.err = res.err
             /\ ~out'.ok => (out'.val = Undef /\ bld' = bld /\ heap' = heap)]_vars

\* a waybill builder with the sections before the totals supplied has failed to build
C25_Witness ==
    /\ out.op = "build" /\ ~out.ok
    /\ bld[out.b].kind = "ttn" /\ out.err = "Totals information is required"
    /\ Truthy(Get(bld[out.b].draft, "waybill")) /\ Truthy(Get(bld[out.b].draft, "productGroups"))

(* C26: once addProductGroup has returned, a call on the sub-builder its   *)
(* callback received changes nothing in what build() of the waybill        *)
(* builder returns: the outcome of build() is the same before and after    *)
(* the call.                                                               *)
C26_GroupFixedAfterAdd ==
    [][out'.op = "later" =>
          BuildResult(heap', bld'[out'.b]) = BuildResult(heap, bld[out'.b])]_vars

\* the fraction num / den rounded to the nearest integer, halves up
NearestHalfUp(num, den) == (2 * num + den) \div (2 * den)

\* the lines of the n-th group in the payload returned, and the products the caller added to it
TtnLinesOut(n) == Get(Get(Get(out.val, "Roadway"), "ProductGroups").e[n], "ProductList").e
TtnProductsRead(n) == Listed(added[out.b], "productGroups")[n]

(* C27: in the payload a waybill builder returns, every product line has   *)
(* Amount = count * price and DeliverySum = Amount / 100 * pricePerKm       *)
(* rounded to the nearest integer, an exact half upwards, for the          *)
(* pricePerKm of the last totals(...) call before build(), whether that    *)
(* call came before or after the group was added.  Groups replaced through *)
(* raw() are left aside.                                                   *)
C27_LineDeliverySum ==
    (BuiltOk("ttn") /\ "Roadway" \notin DOMAIN given[out.b].f) =>
        \A n \in 1..Len(Listed(added[out.b], "productGroups")) :
            /\ Len(TtnLinesOut(n)) = Len(TtnProductsRead(n))
            /\ \A m \in 1..Len(TtnProductsRead(n)) :
                  LET count == Get(TtnProductsRead(n)[m], "count")
                      price == Get(TtnProductsRead(n)[m], "price")
                      perKm == Get(TotalsInForce, "pricePerKm")
                  IN /\ Get(TtnLinesOut(n)[m], "Amount")
                           = S(NumToString(Reduce(count.v * price.v, count.d * price.d)))
                     /\ Get(TtnLinesOut(n)[m], "DeliverySum")
                           = S(ToString(NearestHalfUp(count.v * price.v * perKm.v,
                                                      count.d * price.d * perKm.d * 100)))

\* 25 tons at 2 with 3 per km in force: Amount 50 and DeliverySum round(1.5) = 2
C27_Witness ==
    /\ BuiltOk("ttn") /\ "Roadway" \notin DOMAIN given[out.b].f
    /\ Get(TotalsInForce, "pricePerKm") = N(3)
    /\ Get(TtnProductsRead(1)[1], "count") = N(25)
    /\ Get(TtnLinesOut(1)[1], "Amount") = S("50")
    /\ Get(TtnLinesOut(1)[1], "DeliverySum") = S("2")

RECURSIVE MergedAt(_, _, _, _)
\* x is the value r merged over the value g at every depth, lists included: where both are
\* objects or lists, every key or position of either is present in x, those of r are merged in
\* turn and those g alone has keep g's value; anything else of r replaces what g has.  `lists`
\* is what the merge of two lists is: "arr", a list, or "obj", an object keyed by position.
MergedAt(g, r, x, lists) ==
    IF r.t \in {"obj", "arr"} /\ g.t \in {"obj", "arr"}
    THEN /\ x.t = (IF r.t = "arr" /\ g.t = "arr" THEN lists ELSE "obj")
         /\ DOMAIN Props(x) = DOMAIN Props(g) \cup DOMAIN Props(r)
         /\ \A k \in DOMAIN Props(r) :
               IF k \in DOMAIN Props(g)
               THEN MergedAt(Props(g)[k], Props(r)[k], Props(x)[k], lists)
               ELSE Props(x)[k] = Props(r)[k]
         /\ \A k \in DOMAIN Props(g) \ DOMAIN Props(r) : Props(x)[k] = Props(g)[k]
    ELSE x = r

\* an empowerment or letter builder has returned a payload
DeepMergeBuilt == BuiltOk("empowerment") \/ BuiltOk("letterNK")

ActTextHeld(h, b) == Fld(h, Get(b.payload, "act"), "text")
ActDocOf(result) == Get(result.val, "ActDoc")

\* C30 as stated: an act(no, date, text?) call on a builder whose header holds a text leaves
\* build() returning ActNo = no, ActDate = date and an ActText: the text passed, or the text
\* held before when none is passed; the text is never removed.
C30_HeaderTextNeverRemoved ==
    [][\A header \in ActHeadersIn :
          (/\ bld[1].kind = "act" /\ out'.op = "set" /\ Truthy(ActTextHeld(heap, bld[1]))
           /\ Fld(heap', Get(bld'[1].payload, "act"), "no") = S(header.no)
           /\ Act_act(1, header.no, header.date, header.text))
          => LET result == BuildResult(heap', bld'[1])
             IN  result.ok
                 => ActDocOf(result)
                      = Obj([ActNo |-> S(header.no), ActDate |-> S(header.date),
                             ActText |-> IF header.text = Undef THEN ActTextHeld(heap, bld[1])
                                                                ELSE header.text])]_vars

\* C30: an act(no, date, text?) call on a builder whose header holds a text leaves build()
\* returning ActNo = no and ActDate = date; ActText is the text held before when no text is
\* passed, the text passed when it is not empty, and absent when the empty string is passed.
C30_HeaderTextKeptUnlessPassed ==
    [][\A header \in ActHeadersIn :
          (/\ bld[1].kind = "act" /\ out'.op = "set" /\ Truthy(ActTextHeld(heap, bld[1]))
           /\ Fld(heap', Get(bld'[1].payload, "act"), "no") = S(header.no)
           /\ Act_act(1, header.no, header.date, header.text))
          => LET result == BuildResult(heap', bld'[1])
             IN  result.ok
                 => ActDocOf(result)
                      = IF header.text = S("")
                        THEN Obj([ActNo |-> S(header.no), ActDate |-> S(header.date)])
                        ELSE Obj([ActNo |-> S(header.no), ActDate |-> S(header.date),
                                  ActText |-> IF header.text = Undef
                                              THEN ActTextHeld(heap, bld[1])
                                              ELSE header.text])]_vars

\* act('ACT-1', '2025-02-07', 'done') and then act('ACT-2', '2025-02-08'): the act built carries
\* the second number and date and the first text
C30_Witness ==
    /\ BuiltOk("act")
    /\ "act" \notin DOMAIN given[out.b].f
    /\ Get(out.val, "ActDoc")
          = Obj([ActNo |-> S("ACT-2"), ActDate |-> S("2025-02-08"), ActText |-> S("done")])

====
